---- MODULE Spec2Model ----
(***************************************************************************)
(* yt-factory/orchestrator: the project state machine (WorkflowManager),   *)
(* its heartbeat, the model degradation manager and the pipeline driver    *)
(* (processProject), as a state machine over one dropped file and the      *)
(* project created for it.                                                 *)
(*                                                                         *)
(* Every `await` of the source is a suspension point: a manifest read      *)
(* (loadManifest) and the write that follows it (saveManifest) are two     *)
(* steps, and each asynchronous call chain (the watcher's handler, every   *)
(* heartbeat tick) is a task with its own program counter and its own      *)
(* in-memory copy of the manifest.  Time is counted in units of 5 minutes. *)
(***************************************************************************)
EXTENDS Integers, Sequences, FiniteSets, TLC

\* ---------------------------------------------------------------- bounds
\* number of heartbeat ticks (setInterval firings) a behaviour can hold
MaxTicks == 4
\* number of them that fire in the unrestricted specification
FullTicks == 1
\* forced title regenerations (forceRegenerateTitlesWithTrends) in one run
MaxRegen == 1
\* the clock stops here (units of 5 minutes)
MaxNow == 3
\* generate calls issued one after the other on the client alone
MaxGenerate == 2
\* enqueue calls on a priority queue configured with SmallConcurrent slots
\* and SmallQueueSize waiting places
MaxCalls == 7
SmallConcurrent == 2
SmallQueueSize == 3
\* generate calls issued at the same instant
BurstCalls == 120
\* acquire calls on a token bucket of SmallBucket tokens, and the time they
\* are observed for, in units of 1 / refillRate (the time one token takes)
MaxAcquires == 5
SmallBucket == 2
MaxBucketTime == 4
\* markAsProcessed calls on the hash manager alone
MaxMarks == 3
\* getHotKeywords calls on the trends hook alone, the hours its clock
\* advances at a time, and the hour it stops at
MaxHotCalls == 3
TrendStep == 12
MaxTrendHours == 48
\* the tokens a recorded generate call adds to the cost ledger, and the calls
\* in a ledger loaded from the ./data/cost_report.json of a process before
TokensPerCall == 100
PriorCalls == 5
\* restarts of the process with the dropped file where the watcher left it
MaxRestarts == 2
\* generate calls in progress together on a client whose queue has
\* TinyConcurrent slots and TinyQueueSize waiting places
MaxGenCalls == 4
TinyConcurrent == 1
TinyQueueSize == 1
\* the configuration of the modelled circuit breaker
SmallFailureThreshold == 2
SmallResetTimeout == 2
SmallSuccessThreshold == 2
\* Date.now() when the breaker is constructed, and the last instant modelled
BreakerStart == 1
MaxBreakerTime == 6
\* the number of execute calls issued to the breaker
MaxExecutes == 5
\* record calls on the cost tracker and reports taken from it
MaxRecords == 3
MaxReports == 2
\* concurrent callers of init, each directly or through an operation
MaxInitCallers == 3
\* the largest options.maxRetries handed to withRetry
MaxRetriesOption == 3
\* the longest content of a dropped file, in characters
MaxContentLen == 3

\* positions a tick's call chain may be ahead of the next tick's call chain
ReentryWindow == 2
\* calls of processProject nested in one tick's call chain
MaxDepth == 2

\* ------------------------------------------------------ program constants
MAX_STALE_RECOVERY_COUNT == 3
MAX_RETRIES == 3
\* successful generate calls of a pipeline run: the script; in
\* generateMultiLangSEO the topic, the trends, the analysis, for each of the
\* 5 regional personas the titles and the description, the FAQ and the
\* chapters (a forced title regeneration adds one); the shorts
ScriptCalls == 1
SeoCalls == 15
ShortsCalls == 1
\* generate: the default of options.maxRetries, the attempts per model
maxRetries == 3
\* PriorityQueue: the defaults of its configuration, which GeminiClient uses
DefaultMaxConcurrent == 5
DefaultMaxQueueSize == 100
dropLowestOnFull == TRUE
\* GeminiClient: GEMINI_RATE_LIMIT_RPM, the size of its token bucket
DefaultRateLimit == 60

Statuses ==
  {"pending", "analyzing", "pending_audio", "rendering", "uploading",
   "completed", "failed", "stale_recovered", "degraded_retry", "dead_letter"}

STATE_TRANSITIONS ==
  [s \in Statuses |->
     CASE s = "pending" -> {"analyzing"}
       [] s = "analyzing" -> {"pending_audio", "rendering", "failed",
                              "stale_recovered", "degraded_retry", "dead_letter"}
       [] s = "pending_audio" -> {"rendering", "failed", "stale_recovered", "dead_letter"}
       [] s = "rendering" -> {"uploading", "failed", "stale_recovered", "dead_letter"}
       [] s = "uploading" -> {"completed", "failed", "stale_recovered", "dead_letter"}
       [] s = "completed" -> {}
       [] s = "failed" -> {"pending", "dead_letter"}
       [] s = "stale_recovered" -> {"pending"}
       [] s = "degraded_retry" -> {"analyzing", "failed", "dead_letter"}
       [] s = "dead_letter" -> {}]

\* milliseconds of the source divided by 300000 (5 minutes); 0 = not monitored
STALE_THRESHOLDS ==
  [s \in Statuses |->
     CASE s = "analyzing" -> 2
       [] s = "rendering" -> 6
       [] s = "uploading" -> 1
       [] s = "degraded_retry" -> 3
       [] OTHER -> 0]

MODEL_HIERARCHY ==
  << [name |-> "gemini-3-pro-preview", strictness |-> "normal"],
     [name |-> "gemini-3-flash-preview", strictness |-> "normal"],
     [name |-> "gemini-2.5-flash", strictness |-> "normal"],
     [name |-> "gemini-1.5-flash", strictness |-> "strict"] >>

MODEL_FALLBACK_CHAIN ==
  << "gemini-3-pro-preview", "gemini-3-flash-preview", "gemini-2.5-flash" >>

DEGRADABLE_ERROR_CODES ==
  {"invalid_enum_value", "too_big", "invalid_type", "unrecognized_keys",
   "invalid_string", "invalid_literal"}

\* What model.generateContent rejects with on an HTTP error: the message
\* "[GoogleGenerativeAI Error]: Error fetching from <url>: [<status> <text>] .."
\* with the status line of the response, here its status and the words of its
\* reason phrase.
ProviderErrors ==
  { [status |-> "429", text |-> << "Too", "Many", "Requests" >>],
    [status |-> "401", text |-> << "Unauthorized" >>],
    [status |-> "403", text |-> << "Forbidden" >>],
    [status |-> "500", text |-> << "Internal", "Server", "Error" >>] }
NoProviderError == [status |-> "none", text |-> << >>]

\* the statuses of rate-limit and authentication errors
RateLimitOrAuth == {"429", "401", "403"}

\* extractGeminiErrorCode: /\[(\d{3})\s+(\w+)\]/ matches a bracket that holds
\* the status and exactly one word; /GoogleGenerativeAI(?:Error)?:\s*(\w+)/i
\* does not match the message of the SDK
extractGeminiErrorCode(e) ==
  IF Len(e.text) = 1 THEN e.status \o "_" \o e.text[1] ELSE "gemini_unknown"

\* the error codes extractGeminiErrorCode can return that contain, in lower
\* case, one of '429', '401', '403', 'quota', 'unauthorized'
NonDegradableCodes ==
  { extractGeminiErrorCode(e) :
      e \in {x \in ProviderErrors :
                /\ Len(x.text) = 1
                /\ x.status \in RateLimitOrAuth \/ x.text[1] = "Unauthorized"} }

\* ------------------------------------------------------------- values
NoModel == "undefined"
NoManifest == [status |-> "none"]
\* error fingerprints; status is the HTTP status in the fingerprint's message
NoErr == [type |-> "none", code |-> "none", status |-> "none"]
NoResult == [modelUsed |-> NoModel, isFallbackMode |-> FALSE]

ZodError == [type |-> "zod_validation", code |-> "invalid_enum_value", status |-> "none"]
TransitionError == [type |-> "unknown", code |-> "unknown", status |-> "none"]
FsError == [type |-> "file_system", code |-> "eacces", status |-> "none"]

\* parseErrorFingerprint of "All models failed for project <id>. Last error:
\* <e>", which generateWithFallback throws: the message includes
\* 'GoogleGenerativeAI'
parseErrorFingerprint(e) ==
  [type |-> "gemini_api", code |-> extractGeminiErrorCode(e), status |-> e.status]

\* what a failing stage throws, as parseErrorFingerprint classifies it: the
\* error of generateWithFallback after a 500 or a 401 of the last model, or
\* an error that is neither a provider's nor a validation error (a JSON parse)
StageErrors ==
  { parseErrorFingerprint(e) : e \in {x \in ProviderErrors : x.status \in {"500", "401"}} }
    \cup {[type |-> "unknown", code |-> "unknown", status |-> "none"]}

\* how the history names an error
Tag(fp) == IF fp.type = "gemini_api" THEN fp.status ELSE fp.code

Range(s) == {s[i] : i \in 1..Len(s)}
Min(S) == CHOOSE x \in S : \A y \in S : x <= y

Tasks == 0..MaxTicks
Watcher == 0
Ticks == 1..MaxTicks

VARIABLES
  mockMode,        \* process.env.MOCK_MODE === 'true'
  now,             \* Date.now()
  disk,            \* <projectsDir>/<id>/manifest.json, or NoManifest
  fileLoc,         \* where the dropped file is: "incoming" or "processed"
  hashMarked,      \* the file's hash is in fileHashManager.processedFiles
  ledger,          \* costTracker.data.api_calls_count
  deadLetterFiles, \* files under ./dead-letter
  alerts,          \* lines of ./logs/alerts.log
  created,         \* manifests created by createProject
  reentries,       \* recovery callbacks invoked by recoverStaleProject
  recoveries,      \* times recoverStaleProject has written stale_recovered
  observed,        \* what the pipeline stages have done so far (history)
  tasks,           \* the asynchronous call chains
  fabric,          \* GeminiClient.generateWithFallback: the call in progress
  pq,              \* GeminiClient.priorityQueue
  bucket,          \* GeminiClient.tokenBucket
  copy,            \* a byte-identical copy of the dropped file, its handler
                   \* and the project created for it
  dedup,           \* fileHashManager and the files it looks at
  trends,          \* trendsHook, its file and the getHotKeywords calls
  watch,           \* FolderWatcher.handleFileAdd for one dropped file
  gen,             \* the generate calls on a client, each with its position
  breaker,         \* a circuit breaker, its clock and the calls it protects
  degradation,     \* handleError and attemptDegradedRetry on one manifest, run after run
  tracker,         \* costTracker: its data, the objects it refers to and the reports handed out
  hashInit,        \* fileHashManager.init: the lock, the load and the callers of init
  retry,           \* withRetry: one call of it, its attempts and its waits
  ingest           \* one dropped file from handleFileAdd to the loads of its manifest

\* the state of the components below the pipeline driver, and of the copy
infra == << fabric, pq, bucket, copy, dedup, trends, watch, gen, breaker, degradation, tracker, hashInit, retry, ingest >>

\* the state of the pipeline driver, the state machine and the heartbeat
pipeline == << mockMode, now, disk, fileLoc, hashMarked, ledger, deadLetterFiles,
               alerts, created, reentries, recoveries, observed, tasks >>

vars == << mockMode, now, disk, fileLoc, hashMarked, ledger, deadLetterFiles,
           alerts, created, reentries, recoveries, observed, tasks, infra >>

\* ------------------------------------------------------ pure functions

NewManifest(t) ==
  [status |-> "pending", updated_at |-> t, stale_recovery_count |-> 0,
   retry_count |-> 0, used_models |-> << >>, current_model |-> NoModel,
   model_used |-> "gemini-3-pro-preview", is_fallback_mode |-> FALSE,
   is_degraded |-> FALSE, is_dead_letter |-> FALSE, api_calls_count |-> 0,
   total_tokens_used |-> 0,
   schema_ok |-> TRUE]

\* ProjectManifestSchema.parse succeeds on what is on disk
Loadable(m) == m # NoManifest /\ m.schema_ok

shouldDegrade(fp, m) ==
  IF Len(m.used_models) >= Len(MODEL_HIERARCHY) THEN FALSE
  ELSE IF fp.type = "zod_validation" THEN fp.code \in DEGRADABLE_ERROR_CODES
  ELSE IF fp.type = "gemini_api" THEN fp.code \notin NonDegradableCodes
  ELSE FALSE

CurrentModel(m) ==
  IF m.current_model # NoModel THEN m.current_model ELSE m.model_used

\* index into MODEL_HIERARCHY of the first unused model, 0 for null
getNextModel(m) ==
  LET usedModels == Range(m.used_models) \cup {CurrentModel(m)}
      free == {i \in 1..Len(MODEL_HIERARCHY) : MODEL_HIERARCHY[i].name \notin usedModels}
  IN IF free = {} THEN 0 ELSE Min(free)

IsStale(m, t) ==
  /\ STALE_THRESHOLDS[m.status] # 0
  /\ t - m.updated_at > STALE_THRESHOLDS[m.status]

\* ------------------------------------------------------------- tasks

IdleTask ==
  [pc |-> "idle", m |-> NoManifest, err |-> NoErr, nest |-> 0,
   res |-> NoResult, calls |-> 0, tokens |-> 0, out_ok |-> TRUE]

\* getTokenSnapshot() when the cost tracker has recorded n calls
getTokenSnapshot(n) == n * TokensPerCall

\* no generate call in progress; switched, called, recorded and thrown are
\* history of the call: the statuses that made it go on to another model, the
\* positions of the models callGemini was invoked on, the times the cost
\* tracker recorded it, and the message of the error it threw
FabricIdle ==
  [pc |-> "idle", modelIdx |-> 0, attempt |-> 1, err |-> NoProviderError,
   switched |-> {}, degrade |-> FALSE, generated |-> 0,
   preferredModel |-> NoModel, called |-> {}, recorded |-> 0, thrown |-> "none"]

\* new PriorityQueue(config); arrivals, admitted, dropped, rejected and
\* holding are the history of its calls: the enqueue calls so far, the waiters
\* admitted by dequeue in the order of their admission, the waiters rejected
\* to make room, the enqueue calls that threw QueueFullError, and the callers
\* whose enqueue has resolved and that have not called dequeue yet
PriorityQueue(maxConcurrent, maxQueueSize) ==
  [maxConcurrent |-> maxConcurrent, maxQueueSize |-> maxQueueSize,
   queue |-> << >>, processing |-> 0,
   arrivals |-> 0, admitted |-> << >>, dropped |-> 0, rejected |-> 0,
   holding |-> 0]

\* new TokenBucket({maxTokens, refillRate}) at time 0, with one refill interval
\* as the unit of time; waiters are the wake-up times of the callers that
\* wait in acquire, calls, admitted and available are history: the acquire
\* calls so far, the number of acquire calls that returned at each time, and
\* what getAvailableTokens returned when last called (at construction it
\* would return maxTokens)
TokenBucket(maxTokens) ==
  [maxTokens |-> maxTokens, tokens |-> maxTokens, lastRefillTime |-> 0,
   time |-> 0, waiters |-> << >>, calls |-> 0,
   admitted |-> [t \in 0..MaxBucketTime |-> 0],
   available |-> maxTokens]

\* the pipeline before the watcher has seen the dropped file, but for the
\* cost ledger
BeforeDrop ==
  /\ mockMode \in BOOLEAN
  /\ now = 0
  /\ disk = NoManifest
  /\ fileLoc = "incoming"
  /\ hashMarked = FALSE
  /\ deadLetterFiles = 0
  /\ alerts = 0
  /\ created = 0
  /\ reentries = 0
  /\ recoveries = 0
  /\ observed = {}
  /\ tasks = [t \in Tasks |-> IF t = Watcher THEN [IdleTask EXCEPT !.pc = "w_start"]
                                             ELSE IdleTask]

\* the pipeline of a process that found no ./data/cost_report.json
PipelineInit ==
  /\ BeforeDrop
  /\ ledger = 0

\* the files the hash manager is asked about, and what a file can hold
Paths == {"processed/a.md", "processed/b.md"}
Contents == {"", "x", "y"}
Missing == "ENOENT"
ProjectIds == {"p1", "p2"}
\* stats.size
Size(content) == IF content = "" THEN 0 ELSE 1
\* calculateFileHash: the MD5 digest of the content
MD5(content) == "md5(" \o content \o ")"
Hashes == {MD5(c) : c \in Contents}
NoFiles == [f \in Paths |-> Missing]
NoEntry == [projectId |-> "none", fileSize |-> 0]
NoCheck == [path |-> "none", isProcessed |-> FALSE, checkMethod |-> "none",
            projectId |-> "none"]

\* new FileHashManager() after init with no persisted hashes, over the files
\* fs; op, lastMark and result are history: the kind of the last call, the
\* arguments of the last markAsProcessed and the result of the last
\* isAlreadyProcessed
FileHashManager(fs) ==
  [fs |-> fs,
   processedFiles |-> [h \in Hashes |-> NoEntry],
   sizeIndex |-> [n \in 0..1 |-> {}],
   marks |-> 0, op |-> "none",
   lastMark |-> [path |-> "none", hash |-> "none", projectId |-> "none"],
   result |-> NoCheck]

\* the keywords the trend source answers with
Keywords == {"a", "b"}

\* the getHotKeywords calls that can be in progress together
HotCalls == {1, 2}

\* an empty cache, and a missing or empty ./data/trends_authority.json
NoTrends == [k \in {} |-> 0]

\* new TrendsHook(), over the file left by the process before; the last four
\* fields are history: the decrements of each keyword since it was last
\* observed, the keywords removed, whether two calls have awaited the fetch
\* together, and the hour of the last decay pass
TrendsHook(file) ==
  [cache |-> NoTrends, loaded |-> FALSE, file |-> file, clock |-> 0,
   calls |-> [c \in HotCalls |-> [pc |-> "idle", data |-> NoTrends]],
   issued |-> 0,
   decays |-> [k \in Keywords |-> 0], removed |-> {}, overlapped |-> FALSE,
   decayedAt |-> -1]

\* the two definitions of FolderWatcher.handleFileAdd in the repository
Watchers == {"core/watcher.ts", "core/workflow.ts"}
\* extensions of dropped files
Extensions == {".md", ".txt", ".markdown", ".pdf"}
Accepted(ext) == ext \in {".md", ".txt", ".markdown"}

\* new FolderWatcher(...) of the module w over a file with the extension ext
\* in the incoming directory; invokedIn, threw, reported, detections and
\* redetected are history: where the file was when onFileReady was invoked,
\* whether it has thrown, the onError calls, the 'add' events for the file,
\* and whether one of them came after the handler had thrown
FolderWatcher(w, ext) ==
  [module |-> w, ext |-> ext, pc |-> "start", loc |-> "incoming",
   invokedIn |-> {}, threw |-> FALSE, reported |-> 0, detections |-> 0,
   redetected |-> FALSE,
   restarts |-> 0]

NoWatch == FolderWatcher("core/workflow.ts", ".md")

\* the generate calls of the client
GenCalls == 1..MaxGenCalls

\* no generate call has been made; ticket, admitted and dequeued are history:
\* the number of the call's enqueue, whether its enqueue resolved, and the
\* dequeue calls it has made
NoGenerate ==
  [c \in GenCalls |-> [pc |-> "idle", ticket |-> 0, admitted |-> FALSE,
                       dequeued |-> 0, outcome |-> "none"]]

\* lastFailureTime: number | null; null and 0 are both falsy in canExecute
Null == 0

\* no CircuitOpenError has been thrown
NoStats == [state |-> "none", failures |-> 0, successes |-> 0,
            lastFailureTime |-> Null, lastStateChange |-> Null, totalTrips |-> 0]

\* new CircuitBreaker(config) at instant t; clock is Date.now(), inflight the
\* calls of fn that have not settled; executes, outcome, stats, recordedFailures,
\* recordedSuccesses and streak are history: the execute calls issued, how the
\* last one went, the stats its CircuitOpenError carried, the calls of
\* recordFailure and recordSuccess, the failures recorded since the last
\* recorded success or entry into closed, and the calls of recordSuccess made
\* before the breaker last entered half-open
CircuitBreaker(failureThreshold, resetTimeoutMs, successThreshold, t) ==
  [failureThreshold |-> failureThreshold, resetTimeoutMs |-> resetTimeoutMs,
   successThreshold |-> successThreshold,
   state |-> "closed", failures |-> 0, successes |-> 0,
   lastFailureTime |-> Null, lastStateChange |-> t, totalTrips |-> 0,
   clock |-> t, inflight |-> 0,
   executes |-> 0, outcome |-> "none", stats |-> NoStats,
   recordedFailures |-> 0, recordedSuccesses |-> 0, streak |-> 0,
   successesAtHalfOpen |-> 0]

\* the breaker the component specifications start from
NoBreaker ==
  CircuitBreaker(SmallFailureThreshold, SmallResetTimeout, SmallSuccessThreshold,
                 BreakerStart)

\* a project whose pipeline run is in progress, no error handled yet; fp and
\* decided are the fingerprint handleError last classified and what
\* shouldDegrade returned for it, updated tells that the run has written the
\* script's model into the manifest
NoDegradation ==
  [m |-> NewManifest(0), pc |-> "processing", fp |-> NoErr, decided |-> FALSE,
   updated |-> FALSE]

\* TOKEN_PRICES_USD, in cents per million tokens; 0 for a model without a price
TOKEN_PRICES_USD ==
  [model \in {MODEL_HIERARCHY[i].name : i \in 1..Len(MODEL_HIERARCHY)} |->
     CASE model = "gemini-3-pro-preview" -> 500
       [] model = "gemini-3-flash-preview" -> 50
       [] model = "gemini-2.5-flash" -> 15
       [] OTHER -> 0]

\* a tokens_by_model object with total tokens on the first model
TokensByModel(total) ==
  [model \in {MODEL_FALLBACK_CHAIN[i] : i \in 1..Len(MODEL_FALLBACK_CHAIN)} |->
     IF model = MODEL_FALLBACK_CHAIN[1] THEN total ELSE 0]

\* the addresses of the tokens_by_model objects: the one of the field
\* initialiser and the one JSON.parse creates in init
Initial == 1
Parsed == 2

\* a CostTracker after construction: data holds a reference to its
\* tokens_by_model object, heap the objects; reports are the objects
\* getReport has returned, each with the values it showed when returned
CostTracker ==
  [data |-> [total_tokens_used |-> 0, tokens_by_model |-> Initial,
             estimated_cost_usd |-> 0, api_calls_count |-> 0],
   heap |-> [a \in {Initial, Parsed} |-> TokensByModel(0)],
   loaded |-> FALSE, records |-> 0, reports |-> << >>]

\* the callers of init() and the operations that call it first
InitCallers == 1..MaxInitCallers
InitCallKinds == {"init", "isAlreadyProcessed", "markAsProcessed", "cleanup"}

\* new FileHashManager(): initPromise is Null or the number of the promise
\* _doInit returned, settled the promises that have resolved, doInit the
\* position of _doInit; processedFiles and sizeIndex what the load has put in
\* the index; started and loads count the _doInit calls and the loads of the
\* file; callers gives each caller's position, the promise it waits for and,
\* once init has returned to it, whether the load had finished by then
NewHashManager ==
  [initialized |-> FALSE, initPromise |-> Null, settled |-> {},
   doInit |-> "idle", processedFiles |-> {}, sizeIndex |-> << >>,
   started |-> 0, loads |-> 0,
   callers |-> [c \in InitCallers |->
                  [pc |-> "idle", kind |-> "init", promise |-> Null,
                   finished |-> FALSE]]]

\* baseDelayMs as generateWithFallback passes it
BaseDelayMs == 1000

\* the values of Math.random() tried, in thousandths: its least value, the
\* middle and its greatest value below 1
RandomSamples == {0, 500, 999}

\* what the throw after the loop of withRetry throws
RetryLoopExhausted ==
  [status |-> "none", text |-> << "Retry", "loop", "exhausted", "unexpectedly" >>]

\* withRetry not called yet; invocations counts the calls of fn, errors holds
\* what the attempts rejected with, delays the timeouts waited for, thrown
\* what withRetry rejected with
NoRetry ==
  [pc |-> "idle", maxRetries |-> 0, baseDelayMs |-> BaseDelayMs, attempt |-> 1,
   invocations |-> 0, errors |-> << >>, delays |-> << >>,
   thrown |-> NoProviderError]

\* the kinds of characters of a file: a letter, white space, a Chinese character
Chars == {"a", " ", "zh"}

\* no manifest written yet for the dropped file
NoInput == [word_count |-> 0, estimated_reading_time_minutes |-> 0,
            has_content_engine |-> FALSE, estimated_duration_seconds |-> 0]

\* a file in incoming that the watcher has not handled yet
NoIngest ==
  [pc |-> "incoming", content |-> << >>, language |-> "en", wordCount |-> 0,
   estimatedReadingTimeMinutes |-> 0, manifest |-> NoInput, written |-> 0]

\* the copy has not been dropped
NoCopy == [pc |-> "absent", loc |-> "absent", status |-> "none"]

\* the state after main has constructed its components
Init ==
  /\ PipelineInit
  /\ fabric = FabricIdle
  /\ pq = PriorityQueue(DefaultMaxConcurrent, DefaultMaxQueueSize)
  /\ bucket = TokenBucket(DefaultRateLimit)
  /\ copy = NoCopy
  /\ dedup = FileHashManager(NoFiles)
  /\ trends = TrendsHook(NoTrends)
  /\ watch = NoWatch
  /\ gen = NoGenerate
  /\ breaker = NoBreaker
  /\ degradation = NoDegradation
  /\ tracker = CostTracker
  /\ hashInit = NewHashManager
  /\ retry = NoRetry
  /\ ingest = NoIngest

At(t, p) == tasks[t].pc = p
Goto(t, p) == [tasks EXCEPT ![t].pc = p]
\* the call chain of task t is over: every frame on its stack returns
Finished(t) == [tasks EXCEPT ![t] = [IdleTask EXCEPT !.pc = "done"]]
\* the try block of processProject throws e: the catch calls handleError, which
\* reads none of the locals of the try block
Throw(t, e) ==
  [tasks EXCEPT ![t] = [IdleTask EXCEPT !.pc = "h_load", !.err = e,
                                        !.nest = tasks[t].nest]]
\* loadManifest resolves, the continuation is at p
Loaded(t, p) == [tasks EXCEPT ![t] = [@ EXCEPT !.pc = p, !.m = disk]]
\* saveManifest resolves, the continuation is at p; of the locals only
\* startTokens and the api_calls_count that processProject read at its start
\* are used after it
Saved(t, p) ==
  [tasks EXCEPT ![t] = [IdleTask EXCEPT !.pc = p, !.nest = tasks[t].nest,
                                        !.calls = tasks[t].calls,
                                        !.tokens = tasks[t].tokens]]
\* the continuation at p uses no local
Continue(t, p) ==
  [tasks EXCEPT ![t] = [IdleTask EXCEPT !.pc = p, !.nest = tasks[t].nest]]
\* processProject is called in task t, one frame deeper: startTokens is taken
Enter(t) ==
  [tasks EXCEPT ![t] = [IdleTask EXCEPT !.pc = "p_load", !.nest = tasks[t].nest + 1,
                                        !.tokens = getTokenSnapshot(ledger)]]


\* a transition that persists the status and leaves updated_at alone
TransitionWriteUnstamped(m, s, t) == [m EXCEPT !.status = s]

TransitionWrite(m, s, t) == [m EXCEPT !.status = s, !.updated_at = t]

\* ------------------------------------------------- the ingress watcher

\* handleFileAdd: readFile, then rename into the processed directory
WatcherMove ==
  /\ At(Watcher, "w_start")
  /\ fileLoc' = "processed"
  /\ tasks' = Goto(Watcher, "w_check")
  /\ UNCHANGED << infra, mockMode, now, disk, hashMarked, ledger, deadLetterFiles,
                  alerts, created, reentries, recoveries, observed >>

\* onFileReady: isFileAlreadyProcessed
OnFileReady ==
  /\ At(Watcher, "w_check")
  /\ tasks' = IF hashMarked THEN Finished(Watcher) ELSE Goto(Watcher, "w_create")
  /\ UNCHANGED << infra, mockMode, now, disk, fileLoc, hashMarked, ledger,
                  deadLetterFiles, alerts, created, reentries, recoveries, observed >>

\* createProject, then processProject is called
CreateProject ==
  /\ At(Watcher, "w_create")
  /\ disk' = NewManifest(now)
  /\ created' = created + 1
  /\ tasks' = Enter(Watcher)
  /\ UNCHANGED << infra, mockMode, now, fileLoc, hashMarked, ledger, deadLetterFiles,
                  alerts, reentries, recoveries, observed >>

\* ------------------------------------------------ the pipeline driver

\* processProject: loadManifest outside the try block; a failure rejects
ProcessLoad(t) ==
  /\ At(t, "p_load")
  /\ tasks' = IF Loadable(disk)
                THEN [tasks EXCEPT ![t] = [@ EXCEPT !.pc = "init_load",
                                               !.calls = disk.api_calls_count]]
                ELSE Finished(t)
  /\ UNCHANGED << infra, mockMode, now, disk, fileLoc, hashMarked, ledger,
                  deadLetterFiles, alerts, created, reentries, recoveries, observed >>

\* transitionState(projectId, s): loadManifest and the check of the table
TransitionLoad(t, from, s, to) ==
  /\ At(t, from)
  /\ tasks' = IF ~Loadable(disk) THEN Throw(t, ZodError)
              ELSE IF s \notin STATE_TRANSITIONS[disk.status]
                     THEN Throw(t, TransitionError)
              ELSE Loaded(t, to)
  /\ UNCHANGED << infra, mockMode, now, disk, fileLoc, hashMarked, ledger,
                  deadLetterFiles, alerts, created, reentries, recoveries, observed >>

\* transitionState(projectId, s): saveManifest
TransitionSave(t, from, s, to) ==
  /\ At(t, from)
  /\ disk' = TransitionWrite(tasks[t].m, s, now)
  /\ tasks' = Saved(t, to)
  /\ UNCHANGED << infra, mockMode, now, fileLoc, hashMarked, ledger, deadLetterFiles,
                  alerts, created, reentries, recoveries, observed >>

InitLoad(t) == TransitionLoad(t, "init_load", "analyzing", "init_save")
InitSave(t) == TransitionSave(t, "init_save", "analyzing", "stages")

\* SCRIPT_GENERATION .. VOICE_MATCHING: the generate calls of the script, of
\* generateMultiLangSEO and of extractShortsHooks, each recorded by the cost
\* tracker unless in mock mode; then projectTokensUsed = endTokens -
\* startTokens and globalCost = getCostReport()
Stages(t) ==
  /\ At(t, "stages")
  /\ \E ok \in BOOLEAN, k \in 1..Len(MODEL_FALLBACK_CHAIN), regen \in 0..MaxRegen :
       /\ mockMode => k = 1 /\ regen = 0
       /\ ledger' = IF mockMode THEN ledger
                     ELSE ledger + ScriptCalls + SeoCalls + regen + ShortsCalls
       /\ tasks' = [tasks EXCEPT ![t] =
            [@ EXCEPT !.pc = "upd_load",
                      !.res = [modelUsed |-> MODEL_FALLBACK_CHAIN[k],
                               isFallbackMode |-> k > 1],
                      !.out_ok = ok,
                      !.tokens = getTokenSnapshot(ledger') - @,
                      !.calls = ledger' - @]]
       /\ observed' = observed \cup {IF ok THEN "stages_ok" ELSE "invalid_output"}
  /\ UNCHANGED << infra, mockMode, now, disk, fileLoc, hashMarked, deadLetterFiles,
                  alerts, created, reentries, recoveries >>

\* an LLM call or the parse of its answer throws (the calls the run recorded
\* before the throw are left out of the ledger)
StageFail(t) ==
  /\ At(t, "stages")
  /\ \E e \in StageErrors :
       /\ tasks' = Throw(t, e)
       /\ observed' = observed \cup {Tag(e)}
  /\ UNCHANGED << infra, mockMode, now, disk, fileLoc, hashMarked, ledger,
                  deadLetterFiles, alerts, created, reentries, recoveries >>

\* a manifest read inside the try block fails in the file system
IoFail(t) ==
  /\ tasks[t].pc \in {"init_load", "upd_load", "fin_load"}
  /\ tasks' = Throw(t, FsError)
  /\ observed' = observed \cup {FsError.code}
  /\ UNCHANGED << infra, mockMode, now, disk, fileLoc, hashMarked, ledger,
                  deadLetterFiles, alerts, created, reentries, recoveries >>

\* updateManifest: loadManifest
UpdLoad(t) ==
  /\ At(t, "upd_load")
  /\ tasks' = IF Loadable(disk) THEN Loaded(t, "upd_save") ELSE Throw(t, ZodError)
  /\ UNCHANGED << infra, mockMode, now, disk, fileLoc, hashMarked, ledger,
                  deadLetterFiles, alerts, created, reentries, recoveries, observed >>

\* updateManifest: the updater of MANIFEST_UPDATE, then saveManifest
UpdSave(t) ==
  /\ At(t, "upd_save")
  /\ disk' = [tasks[t].m EXCEPT !.model_used = tasks[t].res.modelUsed,
                                !.is_fallback_mode = tasks[t].res.isFallbackMode,
                                !.total_tokens_used = tasks[t].tokens,
                                !.api_calls_count = tasks[t].calls,
                                !.schema_ok = tasks[t].out_ok,
                                !.updated_at = now]
  /\ tasks' = Continue(t, "fin_load")
  /\ UNCHANGED << infra, mockMode, now, fileLoc, hashMarked, ledger, deadLetterFiles,
                  alerts, created, reentries, recoveries, observed >>

FinLoad(t) == TransitionLoad(t, "fin_load", "rendering", "fin_save")
FinSave(t) == TransitionSave(t, "fin_save", "rendering", "mark")

\* markFileAsProcessed that leaves the hash index alone
MarkWithoutHash(t) ==
  /\ At(t, "mark")
  /\ tasks' = IF Loadable(disk) THEN Finished(t) ELSE Throw(t, ZodError)
  /\ UNCHANGED << infra, mockMode, now, disk, fileLoc, hashMarked, ledger,
                  deadLetterFiles, alerts, created, reentries, recoveries, observed >>

\* markFileAsProcessed: loadManifest, fileHashManager.markAsProcessed
Mark(t) ==
  /\ At(t, "mark")
  /\ IF Loadable(disk)
       THEN hashMarked' = TRUE /\ tasks' = Finished(t)
       ELSE hashMarked' = hashMarked /\ tasks' = Throw(t, ZodError)
  /\ UNCHANGED << infra, mockMode, now, disk, fileLoc, ledger, deadLetterFiles,
                  alerts, created, reentries, recoveries, observed >>


\* ------------------------------------------------ the state machine

\* handleError: loadManifest; a failure rejects out of processProject
HandleLoad(t) ==
  /\ At(t, "h_load")
  /\ tasks' = IF Loadable(disk) THEN Loaded(t, "h_save") ELSE Finished(t)
  /\ UNCHANGED << infra, mockMode, now, disk, fileLoc, hashMarked, ledger,
                  deadLetterFiles, alerts, created, reentries, recoveries, observed >>

\* what handleError writes with its first saveManifest
HandleWrite(m, fp) ==
  IF shouldDegrade(fp, m) THEN m
  ELSE IF m.retry_count + 1 >= MAX_RETRIES
         THEN [m EXCEPT !.retry_count = @ + 1]
  ELSE [m EXCEPT !.retry_count = @ + 1, !.status = "failed"]

\* handleError: record the error, then degrade, dead-letter or fail
HandleSave(t) ==
  /\ At(t, "h_save")
  /\ LET m == tasks[t].m
         fp == tasks[t].err
     IN /\ disk' = HandleWrite(m, fp)
        /\ tasks' = IF shouldDegrade(fp, m) THEN Saved(t, "adr_load")
                    ELSE IF m.retry_count + 1 >= MAX_RETRIES THEN Saved(t, "dl_load")
                    ELSE Finished(t)
  /\ UNCHANGED << infra, mockMode, now, fileLoc, hashMarked, ledger, deadLetterFiles,
                  alerts, created, reentries, recoveries, observed >>

\* attemptDegradedRetry: loadManifest and getNextModel
DegradeLoad(t) ==
  /\ At(t, "adr_load")
  /\ tasks' = IF ~Loadable(disk) THEN Finished(t)
              ELSE IF getNextModel(disk) = 0 THEN Goto(t, "dl_load")
              ELSE Loaded(t, "adr_save")
  /\ UNCHANGED << infra, mockMode, now, disk, fileLoc, hashMarked, ledger,
                  deadLetterFiles, alerts, created, reentries, recoveries, observed >>

\* what attemptDegradedRetry writes
DegradeWrite(m) ==
  LET nextModel == MODEL_HIERARCHY[getNextModel(m)]
      currentModel == CurrentModel(m)
  IN [m EXCEPT !.used_models = IF currentModel \in Range(@) THEN @
                               ELSE Append(@, currentModel),
               !.current_model = nextModel.name,
               !.model_used = nextModel.name,
               !.is_degraded = (nextModel.strictness = "strict"),
               !.is_fallback_mode = TRUE,
               !.status = "degraded_retry"]

\* attemptDegradedRetry: saveManifest
DegradeSave(t) ==
  /\ At(t, "adr_save")
  /\ disk' = DegradeWrite(tasks[t].m)
  /\ tasks' = Saved(t, "adr_tload")
  /\ UNCHANGED << infra, mockMode, now, fileLoc, hashMarked, ledger, deadLetterFiles,
                  alerts, created, reentries, recoveries, observed >>

\* attemptDegradedRetry: transitionState(projectId, 'analyzing'), inside its try
DegradeTransitionLoad(t) ==
  /\ At(t, "adr_tload")
  /\ tasks' = IF Loadable(disk) /\ "analyzing" \in STATE_TRANSITIONS[disk.status]
                THEN Loaded(t, "adr_tsave")
                ELSE Finished(t)
  /\ UNCHANGED << infra, mockMode, now, disk, fileLoc, hashMarked, ledger,
                  deadLetterFiles, alerts, created, reentries, recoveries, observed >>

\* the transition is saved and onProjectRecovered calls processProject
DegradeTransitionSave(t) ==
  /\ At(t, "adr_tsave")
  /\ disk' = TransitionWrite(tasks[t].m, "analyzing", now)
  /\ tasks' = Enter(t)
  /\ UNCHANGED << infra, mockMode, now, fileLoc, hashMarked, ledger, deadLetterFiles,
                  alerts, created, reentries, recoveries, observed >>

\* moveToDeadLetter: loadManifest
DeadLetterLoad(t) ==
  /\ At(t, "dl_load")
  /\ tasks' = IF Loadable(disk) THEN Loaded(t, "dl_save") ELSE Finished(t)
  /\ UNCHANGED << infra, mockMode, now, disk, fileLoc, hashMarked, ledger,
                  deadLetterFiles, alerts, created, reentries, recoveries, observed >>

DeadLetterWrite(m) == [m EXCEPT !.status = "dead_letter", !.is_dead_letter = TRUE]

\* moveToDeadLetter: saveManifest
DeadLetterSave(t) ==
  /\ At(t, "dl_save")
  /\ disk' = DeadLetterWrite(tasks[t].m)
  /\ tasks' = Saved(t, "dl_report")
  /\ UNCHANGED << infra, mockMode, now, fileLoc, hashMarked, ledger, deadLetterFiles,
                  alerts, created, reentries, recoveries, observed >>

\* moveToDeadLetter: the snapshot under ./dead-letter, then sendAlert
DeadLetterReport(t) ==
  /\ At(t, "dl_report")
  /\ deadLetterFiles' = deadLetterFiles + 1
  /\ alerts' = alerts + 1
  /\ tasks' = Finished(t)
  /\ UNCHANGED << infra, mockMode, now, disk, fileLoc, hashMarked, ledger, created,
                  reentries, recoveries, observed >>

\* ------------------------------------------------------- the heartbeat

\* setInterval fires checkStaleProjects, while fewer than n ticks have fired;
\* a tick does not wait for the tick before it to return
StartTick(t, n) ==
  /\ t \in 1..n
  /\ At(t, "idle")
  /\ t = 1 \/ ~At(t - 1, "idle")
  /\ created > 0
  /\ tasks' = Goto(t, "hb_scan")
  /\ UNCHANGED << infra, mockMode, now, disk, fileLoc, hashMarked, ledger,
                  deadLetterFiles, alerts, created, reentries, recoveries, observed >>

\* the manifest is listed by getAllActiveProjects and found stale
Recoverable(m, t) ==
  /\ Loadable(m)
  /\ m.status \notin {"completed", "failed"}
  /\ m.status # "pending_audio"
  /\ IsStale(m, t)

\* checkStaleProjects: getAllActiveProjects and the test of the threshold
HeartbeatScan(t) ==
  /\ At(t, "hb_scan")
  /\ tasks' = IF Recoverable(disk, now) THEN Goto(t, "rc_load") ELSE Finished(t)
  /\ UNCHANGED << infra, mockMode, now, disk, fileLoc, hashMarked, ledger,
                  deadLetterFiles, alerts, created, reentries, recoveries, observed >>

\* recoverStaleProject: loadManifest
RecoverLoad(t) ==
  /\ At(t, "rc_load")
  /\ tasks' = IF Loadable(disk) THEN Loaded(t, "rc_save") ELSE Finished(t)
  /\ UNCHANGED << infra, mockMode, now, disk, fileLoc, hashMarked, ledger,
                  deadLetterFiles, alerts, created, reentries, recoveries, observed >>

\* what recoverStaleProject writes
RecoverWrite(m, t) ==
  IF m.stale_recovery_count >= MAX_STALE_RECOVERY_COUNT
    THEN [m EXCEPT !.status = "failed", !.updated_at = t]
    ELSE [m EXCEPT !.status = "stale_recovered",
                   !.stale_recovery_count = @ + 1,
                   !.updated_at = t]

\* recoverStaleProject: saveManifest
RecoverSave(t) ==
  /\ At(t, "rc_save")
  /\ disk' = RecoverWrite(tasks[t].m, now)
  /\ tasks' = IF tasks[t].m.stale_recovery_count >= MAX_STALE_RECOVERY_COUNT
                THEN Finished(t)
                ELSE Saved(t, "rc_tload")
  /\ recoveries' = IF tasks[t].m.stale_recovery_count >= MAX_STALE_RECOVERY_COUNT
                     THEN recoveries ELSE recoveries + 1
  /\ UNCHANGED << infra, mockMode, now, fileLoc, hashMarked, ledger, deadLetterFiles,
                  alerts, created, reentries, observed >>

\* recoverStaleProject: transitionState(projectId, 'pending'); a throw ends the tick
RecoverTransitionLoad(t) ==
  /\ At(t, "rc_tload")
  /\ tasks' = IF Loadable(disk) /\ "pending" \in STATE_TRANSITIONS[disk.status]
                THEN Loaded(t, "rc_tsave")
                ELSE Finished(t)
  /\ UNCHANGED << infra, mockMode, now, disk, fileLoc, hashMarked, ledger,
                  deadLetterFiles, alerts, created, reentries, recoveries, observed >>

\* the transition is saved and onProjectRecovered calls processProject
RecoverTransitionSave(t) ==
  /\ At(t, "rc_tsave")
  /\ disk' = TransitionWrite(tasks[t].m, "pending", now)
  /\ reentries' = reentries + 1
  /\ tasks' = Enter(t)
  /\ UNCHANGED << infra, mockMode, now, fileLoc, hashMarked, ledger, deadLetterFiles,
                  alerts, created, recoveries, observed >>

\* time passes
AdvanceClock ==
  /\ now < MaxNow
  /\ now' = now + 1
  /\ UNCHANGED << infra, mockMode, disk, fileLoc, hashMarked, ledger, deadLetterFiles,
                  alerts, created, reentries, recoveries, observed, tasks >>

Next ==
  \/ WatcherMove
  \/ OnFileReady
  \/ CreateProject
  \/ AdvanceClock
  \/ \E t \in Tasks :
       \/ ProcessLoad(t)
       \/ InitLoad(t)
       \/ InitSave(t)
       \/ Stages(t)
       \/ StageFail(t)
       \/ IoFail(t)
       \/ UpdLoad(t)
       \/ UpdSave(t)
       \/ FinLoad(t)
       \/ FinSave(t)
       \/ Mark(t)
       \/ HandleLoad(t)
       \/ HandleSave(t)
       \/ DegradeLoad(t)
       \/ DegradeSave(t)
       \/ DegradeTransitionLoad(t)
       \/ DegradeTransitionSave(t)
       \/ DeadLetterLoad(t)
       \/ DeadLetterSave(t)
       \/ DeadLetterReport(t)
       \/ StartTick(t, FullTicks)
       \/ HeartbeatScan(t)
       \/ RecoverLoad(t)
       \/ RecoverSave(t)
       \/ RecoverTransitionLoad(t)
       \/ RecoverTransitionSave(t)

Spec == Init /\ [][Next]_vars

\* The behaviours of Spec (with MaxTicks ticks) in which the pipeline run of
\* the watcher's handler hangs in its LLM stages, the case the heartbeat is
\* there for, and the runs that the heartbeat re-enters are still waiting for
\* their first manifest read.
HeartbeatNext ==
  \/ WatcherMove
  \/ OnFileReady
  \/ CreateProject
  \/ AdvanceClock
  \/ ProcessLoad(Watcher)
  \/ InitLoad(Watcher)
  \/ InitSave(Watcher)
  \/ \E t \in Ticks :
       \/ StartTick(t, MaxTicks)
       \/ HeartbeatScan(t)
       \/ RecoverLoad(t)
       \/ RecoverSave(t)
       \/ RecoverTransitionLoad(t)
       \/ RecoverTransitionSave(t)

HeartbeatSpec == Init /\ [][HeartbeatNext]_vars

\* the positions of a tick's call chain, in the order in which it passes them
ChainOrder ==
  << "idle", "hb_scan", "rc_load", "rc_save", "rc_tload", "rc_tsave",
     "p_load", "init_load", "init_save", "stages", "h_load", "h_save",
     "adr_load", "adr_save", "adr_tload", "adr_tsave",
     "dl_load", "dl_save", "dl_report" >>

\* the positions from one call of processProject to the next one inside it
RunOrder == SelectSeq(ChainOrder, LAMBDA p : p \in
  {"p_load", "init_load", "init_save", "stages", "h_load", "h_save",
   "adr_load", "adr_save", "adr_tload", "adr_tsave"})

\* how far a call chain has come: the positions it has passed
Progress(task) ==
  (CHOOSE i \in 1..Len(ChainOrder) : ChainOrder[i] = task.pc)
    + (IF task.nest > 1 THEN (task.nest - 1) * Len(RunOrder) ELSE 0)

\* step A, taken only when it leaves every tick's call chain between the
\* chain of the tick fired before it and, until that one has returned,
\* ReentryWindow positions behind it: the ticks fire in a burst, their call
\* chains advance together and return in the order in which they were fired;
\* no call chain goes deeper than MaxDepth calls of processProject
InOrder(A) ==
  /\ A
  /\ \A t \in Ticks : tasks'[t].nest <= MaxDepth
  /\ \A t \in Ticks \ {1} :
       \/ tasks'[t - 1].pc = "done"
       \/ /\ tasks'[t].pc # "done"
          /\ Progress(tasks'[t - 1]) - Progress(tasks'[t]) \in 0..ReentryWindow

\* The behaviours of Spec (with MaxTicks ticks) in which the pipeline run of
\* the watcher's handler hangs in its LLM stages, the runs that the heartbeat
\* re-enters go on, each failing in its stages and being handled, and the
\* call chains of the ticks advance together.
ReentryNext ==
  \/ WatcherMove
  \/ OnFileReady
  \/ CreateProject
  \/ AdvanceClock
  \/ ProcessLoad(Watcher)
  \/ InitLoad(Watcher)
  \/ InitSave(Watcher)
  \/ \E t \in Ticks :
       \/ InOrder(StartTick(t, MaxTicks))
       \/ InOrder(HeartbeatScan(t))
       \/ InOrder(RecoverLoad(t))
       \/ InOrder(RecoverSave(t))
       \/ InOrder(RecoverTransitionLoad(t))
       \/ InOrder(RecoverTransitionSave(t))
       \/ InOrder(ProcessLoad(t))
       \/ InOrder(InitLoad(t))
       \/ InOrder(InitSave(t))
       \/ InOrder(StageFail(t))
       \/ InOrder(HandleLoad(t))
       \/ InOrder(HandleSave(t))
       \/ InOrder(DegradeLoad(t))
       \/ InOrder(DegradeSave(t))
       \/ InOrder(DegradeTransitionLoad(t))
       \/ InOrder(DegradeTransitionSave(t))
       \/ InOrder(DeadLetterLoad(t))
       \/ InOrder(DeadLetterSave(t))
       \/ InOrder(DeadLetterReport(t))

ReentrySpec == Init /\ [][ReentryNext]_vars

\* the tasks that hold a manifest they have read and not yet written back
Holding == {t \in Tasks : tasks[t].m # NoManifest}

\* step A, taken only when no other task is between its read and its write
Serial(A) == A /\ Cardinality(Holding') <= 1

\* The behaviours of Spec (with MaxTicks ticks) in which every pipeline run
\* fails in its stages or at INIT, no degraded retry advances, and no manifest
\* read falls between another task's read and the write that follows it.
RetryNext ==
  \/ WatcherMove
  \/ OnFileReady
  \/ CreateProject
  \/ AdvanceClock
  \/ \E t \in Tasks :
       \/ Serial(ProcessLoad(t))
       \/ Serial(InitLoad(t))
       \/ InitSave(t)
       \/ StageFail(t)
       \/ Serial(HandleLoad(t))
       \/ HandleSave(t)
       \/ Serial(DeadLetterLoad(t))
       \/ DeadLetterSave(t)
       \/ DeadLetterReport(t)
       \/ StartTick(t, MaxTicks)
       \/ HeartbeatScan(t)
       \/ Serial(RecoverLoad(t))
       \/ RecoverSave(t)
       \/ Serial(RecoverTransitionLoad(t))
       \/ RecoverTransitionSave(t)

RetrySpec == Init /\ [][RetryNext]_vars

\* ------------------------------------------------- the LLM client alone

besideFabric == << pq, bucket, copy, dedup, trends, watch, gen, breaker, degradation, tracker, hashInit, retry, ingest >>

\* withRetry has made its last attempt after the first one
FirstAttempt(attempt) == attempt = 1

\* withRetry has made its last attempt: attempt === maxRetries
LastAttempt(attempt) == attempt = maxRetries

\* generate, with or without options.preferredModel (the priority queue and
\* the token bucket admit the call at once): generateMock in mock mode, else
\* generateWithFallback from the first model
FabricGenerate ==
  /\ fabric.pc \in {"idle", "returned", "handled"}
  /\ fabric.generated < MaxGenerate
  /\ \E preferredModel \in {NoModel} \cup Range(MODEL_FALLBACK_CHAIN) :
       fabric' = [FabricIdle EXCEPT !.pc = IF mockMode THEN "returned" ELSE "call",
                                    !.generated = fabric.generated + 1,
                                    !.preferredModel = preferredModel]
  /\ UNCHANGED << pipeline, besideFabric >>

\* callGemini resolves: the cost is recorded and the result returned
FabricCallOk ==
  /\ fabric.pc = "call"
  /\ fabric' = [fabric EXCEPT !.pc = "returned",
                              !.called = @ \cup {fabric.modelIdx},
                              !.recorded = @ + 1]
  /\ ledger' = ledger + 1
  /\ UNCHANGED << mockMode, now, disk, fileLoc, hashMarked, deadLetterFiles,
                  alerts, created, reentries, recoveries, observed, tasks,
                  besideFabric >>

\* callGemini rejects with e: withRetry tries again, up to maxRetries attempts;
\* then the catch of generateWithFallback goes on to the next model, or
\* throws after the last one
FabricCallFail ==
  /\ fabric.pc = "call"
  /\ \E e \in ProviderErrors :
       fabric' =
         IF ~ LastAttempt(fabric.attempt)
           THEN [fabric EXCEPT !.attempt = @ + 1,
                               !.called = @ \cup {fabric.modelIdx}]
         ELSE IF fabric.modelIdx = Len(MODEL_FALLBACK_CHAIN) - 1
           THEN [fabric EXCEPT !.pc = "thrown", !.err = e,
                               !.called = @ \cup {fabric.modelIdx},
                               !.thrown = "All models failed"]
         ELSE [fabric EXCEPT !.modelIdx = @ + 1, !.attempt = 1, !.err = e,
                             !.called = @ \cup {fabric.modelIdx},
                             !.switched = @ \cup {e.status}]
  /\ UNCHANGED << pipeline, besideFabric >>

\* the error reaches handleError for a project that has not degraded yet:
\* parseErrorFingerprint and shouldDegrade
FabricHandle ==
  /\ fabric.pc = "thrown"
  /\ fabric' = [fabric EXCEPT
       !.pc = "handled",
       !.degrade = shouldDegrade(parseErrorFingerprint(fabric.err), NewManifest(now))]
  /\ UNCHANGED << pipeline, besideFabric >>

FabricNext ==
  \/ FabricGenerate
  \/ FabricCallOk
  \/ FabricCallFail
  \/ FabricHandle

\* generate calls issued one after the other, no pipeline run
FabricSpec == Init /\ [][FabricNext]_vars

\* ------------------------------------------------- the priority queue

besideQueue == << fabric, bucket, copy, dedup, trends, watch, gen, breaker, degradation, tracker, hashInit, retry, ingest >>

Priorities == {"high", "medium", "low"}
PRIORITY_WEIGHTS == [p \in Priorities |->
  CASE p = "high" -> 0 [] p = "medium" -> 1 [] p = "low" -> 2]

\* an insertion that ignores the priority: queue.push(item)
InsertAtEnd(queue, item) == Append(queue, item)

\* enqueue: the item goes before the first waiter of a greater weight
\* (findIndex, splice), or to the end (push)
InsertByPriority(queue, item) ==
  LET later == {i \in 1..Len(queue) :
                  PRIORITY_WEIGHTS[queue[i].priority] > PRIORITY_WEIGHTS[item.priority]}
  IN IF later = {} THEN Append(queue, item)
     ELSE SubSeq(queue, 1, Min(later) - 1) \o << item >>
            \o SubSeq(queue, Min(later), Len(queue))

\* a dropLowestPriority that also drops a last waiter of the same priority
CanDropEqual(queue, priority) ==
  /\ Len(queue) > 0
  /\ PRIORITY_WEIGHTS[priority] <= PRIORITY_WEIGHTS[queue[Len(queue)].priority]

\* dropLowestPriority: the last waiter is dropped if the incoming priority is
\* higher than its priority
CanDrop(queue, priority) ==
  /\ Len(queue) > 0
  /\ PRIORITY_WEIGHTS[priority] < PRIORITY_WEIGHTS[queue[Len(queue)].priority]

\* an enqueue whose dropLowestPriority rejects the last waiter and leaves it
\* in the queue
enqueueKeepsDropped(q, priority) ==
  LET item == [priority |-> priority, id |-> q.arrivals + 1]
      a == [q EXCEPT !.arrivals = @ + 1]
  IN IF q.processing < q.maxConcurrent
       THEN [a EXCEPT !.processing = @ + 1, !.holding = @ + 1]
     ELSE IF q.maxQueueSize > 0 /\ Len(q.queue) >= q.maxQueueSize
       THEN IF dropLowestOnFull /\ CanDrop(q.queue, priority)
              THEN [a EXCEPT !.queue = InsertByPriority(@, item),
                             !.dropped = @ + 1]
              ELSE [a EXCEPT !.rejected = @ + 1]
     ELSE [a EXCEPT !.queue = InsertByPriority(@, item)]

\* enqueue(priority) on the queue q
enqueue(q, priority) ==
  LET item == [priority |-> priority, id |-> q.arrivals + 1]
      a == [q EXCEPT !.arrivals = @ + 1]
  IN IF q.processing < q.maxConcurrent
       THEN [a EXCEPT !.processing = @ + 1, !.holding = @ + 1]
     ELSE IF q.maxQueueSize > 0 /\ Len(q.queue) >= q.maxQueueSize
       THEN IF dropLowestOnFull /\ CanDrop(q.queue, priority)
              THEN [a EXCEPT !.queue = InsertByPriority(SubSeq(@, 1, Len(@) - 1), item),
                             !.dropped = @ + 1]
              ELSE [a EXCEPT !.rejected = @ + 1]
     ELSE [a EXCEPT !.queue = InsertByPriority(@, item)]

\* a dequeue() that does not count the waiter it resolves as processing
dequeueUncounted(q) ==
  IF Len(q.queue) > 0
    THEN [q EXCEPT !.queue = Tail(@), !.admitted = Append(@, Head(q.queue)),
                   !.processing = @ - 1]
    ELSE [q EXCEPT !.processing = @ - 1, !.holding = @ - 1]

\* dequeue() on the queue q: the head waiter's resolve counts it as processing
\* (the caller stops holding a slot and the resolved waiter starts to)
dequeue(q) ==
  IF Len(q.queue) > 0
    THEN [q EXCEPT !.queue = Tail(@), !.admitted = Append(@, Head(q.queue))]
    ELSE [q EXCEPT !.processing = @ - 1, !.holding = @ - 1]

\* a generate call arrives, while fewer than n have, with a priority of ps
PqEnqueue(n, ps) ==
  /\ pq.arrivals < n
  /\ \E priority \in ps : pq' = enqueue(pq, priority)
  /\ UNCHANGED << pipeline, besideQueue >>

\* a generate call that holds a slot ends, once n calls have arrived
PqDequeue(n) ==
  /\ pq.arrivals >= n
  /\ pq.holding > 0
  /\ pq' = dequeue(pq)
  /\ UNCHANGED << pipeline, besideQueue >>

\* a queue of SmallConcurrent slots and SmallQueueSize places
QueueInit ==
  /\ PipelineInit
  /\ fabric = FabricIdle
  /\ pq = PriorityQueue(SmallConcurrent, SmallQueueSize)
  /\ bucket = TokenBucket(DefaultRateLimit)
  /\ copy = NoCopy
  /\ dedup = FileHashManager(NoFiles)
  /\ trends = TrendsHook(NoTrends)
  /\ watch = NoWatch
  /\ gen = NoGenerate
  /\ breaker = NoBreaker
  /\ degradation = NoDegradation
  /\ tracker = CostTracker
  /\ hashInit = NewHashManager
  /\ retry = NoRetry
  /\ ingest = NoIngest

QueueNext ==
  \/ PqEnqueue(MaxCalls, Priorities)
  \/ PqDequeue(0)

\* any sequence of enqueue and dequeue calls on a small queue
QueueSpec == QueueInit /\ [][QueueNext]_vars

\* the same calls when every caller whose enqueue has resolved calls dequeue
\* in the end (the finally block of generate); arrivals may stop at any time
QueueLiveSpec == QueueSpec /\ WF_vars(PqDequeue(0))

BurstNext ==
  \/ PqEnqueue(BurstCalls, {"medium"})
  \/ PqDequeue(BurstCalls)

\* BurstCalls generate calls of the default priority arrive at the client's
\* queue at the same instant, before any of them ends
BurstSpec == Init /\ [][BurstNext]_vars

\* ------------------------------------------------- the token bucket

besideBucket == << fabric, pq, copy, dedup, trends, watch, gen, breaker, degradation, tracker, hashInit, retry, ingest >>

\* refill: the tokens of the time since the last refill, capped
refill(b) ==
  [b EXCEPT !.tokens = IF @ + (b.time - b.lastRefillTime) > b.maxTokens
                         THEN b.maxTokens ELSE @ + (b.time - b.lastRefillTime),
            !.lastRefillTime = b.time]

\* an acquire call returns on b at the time of b
Admit(b) == [b EXCEPT !.tokens = @ - 1, !.admitted[b.time] = @ + 1]

\* acquire: refill, then a token is taken, or the caller sleeps for the time
\* the missing part of a token takes, (1 - tokens) / refillRate
BucketAcquire ==
  /\ bucket.calls < MaxAcquires
  /\ LET b == [refill(bucket) EXCEPT !.calls = @ + 1]
     IN bucket' = IF b.tokens >= 1 THEN Admit(b)
                  ELSE [b EXCEPT !.waiters = Append(@, b.time + (1 - b.tokens))]
  /\ UNCHANGED << pipeline, besideBucket >>

\* the timer of a sleeping caller fires: refill, and the token is taken
BucketWake ==
  /\ \E i \in 1..Len(bucket.waiters) :
       /\ bucket.waiters[i] <= bucket.time
       /\ bucket' = Admit(refill(
            [bucket EXCEPT !.waiters = SubSeq(@, 1, i - 1) \o SubSeq(@, i + 1, Len(@))]))
  /\ UNCHANGED << pipeline, besideBucket >>

\* getAvailableTokens: refill, then Math.floor(this.tokens), a whole number
\* already in units of one token per unit of time
BucketGetAvailable ==
  /\ bucket' = [refill(bucket) EXCEPT !.available = refill(bucket).tokens]
  /\ UNCHANGED << pipeline, besideBucket >>

\* time passes, when no timer is due
BucketTick ==
  /\ bucket.time < MaxBucketTime
  /\ \A i \in 1..Len(bucket.waiters) : bucket.waiters[i] > bucket.time
  /\ bucket' = [bucket EXCEPT !.time = @ + 1]
  /\ UNCHANGED << pipeline, besideBucket >>

\* a bucket of SmallBucket tokens
BucketInit ==
  /\ PipelineInit
  /\ fabric = FabricIdle
  /\ pq = PriorityQueue(DefaultMaxConcurrent, DefaultMaxQueueSize)
  /\ bucket = TokenBucket(SmallBucket)
  /\ copy = NoCopy
  /\ dedup = FileHashManager(NoFiles)
  /\ trends = TrendsHook(NoTrends)
  /\ watch = NoWatch
  /\ gen = NoGenerate
  /\ breaker = NoBreaker
  /\ degradation = NoDegradation
  /\ tracker = CostTracker
  /\ hashInit = NewHashManager
  /\ retry = NoRetry
  /\ ingest = NoIngest

BucketNext ==
  \/ BucketAcquire
  \/ BucketWake
  \/ BucketGetAvailable
  \/ BucketTick

\* callers of acquire on a small bucket, at any times
BucketSpec == BucketInit /\ [][BucketNext]_vars

\* ------------------------------------------------- a duplicate of the file

besideCopy == << fabric, pq, bucket, dedup, trends, watch, gen, breaker, degradation, tracker, hashInit, retry, ingest >>

\* a copy of the file is dropped into incoming after the original was
\* picked up
CopyDrop ==
  /\ copy.pc = "absent"
  /\ fileLoc = "processed"
  /\ copy' = [copy EXCEPT !.pc = "w_start", !.loc = "incoming"]
  /\ UNCHANGED << pipeline, besideCopy >>

\* handleFileAdd for the copy: readFile, rename into the processed directory
CopyMove ==
  /\ copy.pc = "w_start"
  /\ copy' = [copy EXCEPT !.pc = "w_check", !.loc = "processed"]
  /\ UNCHANGED << pipeline, besideCopy >>

\* onFileReady for the copy: isFileAlreadyProcessed
CopyCheck ==
  /\ copy.pc = "w_check"
  /\ copy' = [copy EXCEPT !.pc = IF hashMarked THEN "done" ELSE "w_create"]
  /\ UNCHANGED << pipeline, besideCopy >>

\* createProject for the copy, then processProject is called
CopyCreate ==
  /\ copy.pc = "w_create"
  /\ copy' = [copy EXCEPT !.pc = "init", !.status = "pending"]
  /\ created' = created + 1
  /\ UNCHANGED << mockMode, now, disk, fileLoc, hashMarked, ledger, deadLetterFiles,
                  alerts, reentries, recoveries, observed, tasks, besideCopy >>

\* processProject for the copy's project, when nothing fails: INIT
CopyInit ==
  /\ copy.pc = "init"
  /\ copy' = [copy EXCEPT !.pc = "stages", !.status = "analyzing"]
  /\ UNCHANGED << pipeline, besideCopy >>

\* SCRIPT_GENERATION .. MANIFEST_UPDATE
CopyStages ==
  /\ copy.pc = "stages"
  /\ \E regen \in 0..MaxRegen :
       /\ mockMode => regen = 0
       /\ ledger' = IF mockMode THEN ledger
                     ELSE ledger + ScriptCalls + SeoCalls + regen + ShortsCalls
  /\ copy' = [copy EXCEPT !.pc = "fin"]
  /\ UNCHANGED << mockMode, now, disk, fileLoc, hashMarked, deadLetterFiles,
                  alerts, created, reentries, recoveries, observed, tasks, besideCopy >>

\* FINALIZATION: transitionState(projectId, 'rendering')
CopyFinal ==
  /\ copy.pc = "fin"
  /\ copy' = [copy EXCEPT !.pc = "mark", !.status = "rendering"]
  /\ UNCHANGED << pipeline, besideCopy >>

\* markFileAsProcessed for the copy's project
CopyMark ==
  /\ copy.pc = "mark"
  /\ copy' = [copy EXCEPT !.pc = "done"]
  /\ hashMarked' = TRUE
  /\ UNCHANGED << mockMode, now, disk, fileLoc, ledger, deadLetterFiles,
                  alerts, created, reentries, recoveries, observed, tasks, besideCopy >>

\* The behaviours in which a copy of the file is dropped after the original,
\* no step of either pipeline run fails, and no heartbeat tick fires.
DuplicateNext ==
  \/ WatcherMove
  \/ OnFileReady
  \/ CreateProject
  \/ AdvanceClock
  \/ ProcessLoad(Watcher)
  \/ InitLoad(Watcher)
  \/ InitSave(Watcher)
  \/ Stages(Watcher)
  \/ UpdLoad(Watcher)
  \/ UpdSave(Watcher)
  \/ FinLoad(Watcher)
  \/ FinSave(Watcher)
  \/ Mark(Watcher)
  \/ CopyDrop
  \/ CopyMove
  \/ CopyCheck
  \/ CopyCreate
  \/ CopyInit
  \/ CopyStages
  \/ CopyFinal
  \/ CopyMark

DuplicateSpec == Init /\ [][DuplicateNext]_vars

\* ------------------------------------------------- the file hash manager

besideDedup == << fabric, pq, bucket, copy, trends, watch, gen, breaker, degradation, tracker, hashInit, retry, ingest >>

\* a markAsProcessed whose stat of the file fails: the size recorded is 0
markAsProcessedUnsized(d, filePath, hash, projectId) ==
  [d EXCEPT !.processedFiles[hash] = [projectId |-> projectId, fileSize |-> 0],
            !.sizeIndex[0] = @ \cup {hash}]

\* markAsProcessed(filePath, hash, projectId) on the manager d
markAsProcessed(d, filePath, hash, projectId) ==
  LET fileSize == IF d.fs[filePath] = Missing THEN 0 ELSE Size(d.fs[filePath])
  IN [d EXCEPT !.processedFiles[hash] = [projectId |-> projectId, fileSize |-> fileSize],
               !.sizeIndex[fileSize] = @ \cup {hash}]

\* isAlreadyProcessed(filePath) on the manager d: the size first, then the hash
isAlreadyProcessed(d, filePath) ==
  LET content == d.fs[filePath]
      existing == d.processedFiles[MD5(content)]
      no(method) == [path |-> filePath, isProcessed |-> FALSE,
                     checkMethod |-> method, projectId |-> "none"]
  IN IF content = Missing THEN no("new_file")
     ELSE IF d.sizeIndex[Size(content)] = {} THEN no("size_mismatch")
     ELSE IF existing # NoEntry
       THEN [path |-> filePath, isProcessed |-> TRUE,
             checkMethod |-> "hash_match", projectId |-> existing.projectId]
     ELSE no("hash_mismatch")

\* a call of markAsProcessed
DedupMark ==
  /\ dedup.marks < MaxMarks
  /\ \E filePath \in Paths, hash \in Hashes, projectId \in ProjectIds :
       dedup' = [markAsProcessed(dedup, filePath, hash, projectId) EXCEPT
                   !.marks = @ + 1, !.op = "mark",
                   !.lastMark = [path |-> filePath, hash |-> hash,
                                 projectId |-> projectId]]
  /\ UNCHANGED << pipeline, besideDedup >>

\* a call of isAlreadyProcessed
DedupCheck ==
  /\ \E filePath \in Paths :
       dedup' = [dedup EXCEPT !.op = "check",
                              !.result = isAlreadyProcessed(dedup, filePath)]
  /\ UNCHANGED << pipeline, besideDedup >>

\* a hash manager over any files
DedupInit ==
  /\ PipelineInit
  /\ fabric = FabricIdle
  /\ pq = PriorityQueue(DefaultMaxConcurrent, DefaultMaxQueueSize)
  /\ bucket = TokenBucket(DefaultRateLimit)
  /\ copy = NoCopy
  /\ \E fs \in [Paths -> Contents \cup {Missing}] : dedup = FileHashManager(fs)
  /\ trends = TrendsHook(NoTrends)
  /\ watch = NoWatch
  /\ gen = NoGenerate
  /\ breaker = NoBreaker
  /\ degradation = NoDegradation
  /\ tracker = CostTracker
  /\ hashInit = NewHashManager
  /\ retry = NoRetry
  /\ ingest = NoIngest

DedupNext ==
  \/ DedupMark
  \/ DedupCheck

\* any sequence of markAsProcessed and isAlreadyProcessed calls
DedupSpec == DedupInit /\ [][DedupNext]_vars

\* ------------------------------------------------------ the trends hook

besideTrends == << fabric, pq, bucket, copy, dedup, watch, gen, breaker, degradation, tracker, hashInit, retry, ingest >>

CACHE_TTL_HOURS == 6
DECAY_THRESHOLD_HOURS == 24

\* the entry is due for decay at the hour h
Decayed(entry, h) == h - entry.lastSeen > DECAY_THRESHOLD_HOURS

\* a decay pass that decrements every due entry and removes none
applyDecayToZero(cache, h) ==
  [k \in DOMAIN cache |->
     IF Decayed(cache[k], h)
       THEN [cache[k] EXCEPT !.consecutiveWindows = @ - 1]
       ELSE cache[k]]

\* applyDecay() at the hour h: an entry not seen for more than 24 hours loses
\* a window, or is deleted when it has one window left
applyDecay(cache, h) ==
  LET kept == {k \in DOMAIN cache :
                 ~ Decayed(cache[k], h) \/ cache[k].consecutiveWindows > 1}
  IN [k \in kept |->
        IF Decayed(cache[k], h)
          THEN [cache[k] EXCEPT !.consecutiveWindows = @ - 1]
          ELSE cache[k]]

\* enrichWithAuthority(keyword) at the hour h, as the cache it leaves
enrichWithAuthority(cache, keyword, h) ==
  IF keyword \in DOMAIN cache
    THEN LET existing == cache[keyword]
         IN [cache EXCEPT ![keyword] =
               [existing EXCEPT
                  !.consecutiveWindows =
                     IF h - existing.lastSeen >= CACHE_TTL_HOURS THEN @ + 1 ELSE @,
                  !.lastSeen = h]]
    ELSE [k \in DOMAIN cache \cup {keyword} |->
            IF k = keyword
              THEN [firstSeen |-> h, lastSeen |-> h, consecutiveWindows |-> 1]
              ELSE cache[k]]

\* rawKeywords.map(enrichWithAuthority): one keyword after the other
RECURSIVE enrichAll(_, _, _)
enrichAll(cache, rawKeywords, h) ==
  IF rawKeywords = {} THEN cache
  ELSE LET kw == CHOOSE k \in rawKeywords : TRUE
       IN enrichAll(enrichWithAuthority(cache, kw, h), rawKeywords \ {kw}, h)

\* loadFromDisk(): every entry of the file is set in the cache
loadFromDisk(cache, file) ==
  [k \in DOMAIN cache \cup DOMAIN file |->
     IF k \in DOMAIN file THEN file[k] ELSE cache[k]]

\* the history of a decay pass over the cache at the hour h
DecayPass(tr, cache, h) ==
  [tr EXCEPT
     !.decays = [k \in Keywords |->
                   IF k \in DOMAIN cache /\ Decayed(cache[k], h)
                     THEN @[k] + 1 ELSE @[k]],
     !.removed = @ \cup (DOMAIN cache \ DOMAIN applyDecay(cache, h)),
     !.decayedAt = h]

\* getHotKeywords up to its first await: init() returns at once when the
\* cache is loaded, and the decay pass runs before the fetch is awaited
TrendsGetHot(c) ==
  /\ trends.calls[c].pc = "idle"
  /\ trends.issued < MaxHotCalls
  /\ trends' =
       IF trends.loaded
         THEN [DecayPass(trends, trends.cache, trends.clock) EXCEPT
                 !.cache = applyDecay(trends.cache, trends.clock),
                 !.calls[c].pc = "fetch",
                 !.issued = @ + 1,
                 !.overlapped = @ \/ \E d \in HotCalls : trends.calls[d].pc = "fetch"]
         ELSE [trends EXCEPT !.calls[c].pc = "load", !.issued = @ + 1]
  /\ UNCHANGED << pipeline, besideTrends >>

\* readFile has answered: the rest of loadFromDisk and of init, then the
\* decay pass
TrendsLoaded(c) ==
  /\ trends.calls[c].pc = "load"
  /\ LET loaded == loadFromDisk(trends.cache, trends.file)
     IN trends' =
          [DecayPass(trends, loaded, trends.clock) EXCEPT
             !.cache = applyDecay(loaded, trends.clock),
             !.loaded = TRUE,
             !.calls[c].pc = "fetch",
             !.overlapped = @ \/ \E d \in HotCalls : trends.calls[d].pc = "fetch"]
  /\ UNCHANGED << pipeline, besideTrends >>

\* fetchFromTrends has answered (with nothing when it failed): the keywords
\* are enriched, and saveToDisk takes the cache and awaits writeFile
TrendsFetched(c) ==
  /\ trends.calls[c].pc = "fetch"
  /\ \E rawKeywords \in SUBSET Keywords :
       LET enriched == enrichAll(trends.cache, rawKeywords, trends.clock)
       IN trends' =
            [trends EXCEPT
               !.cache = enriched,
               !.calls[c] = [pc |-> "save", data |-> enriched],
               !.decays = [k \in Keywords |->
                             IF k \in rawKeywords THEN 0 ELSE @[k]]]
  /\ UNCHANGED << pipeline, besideTrends >>

\* writeFile has written the file
TrendsSaved(c) ==
  /\ trends.calls[c].pc = "save"
  /\ trends' = [trends EXCEPT !.file = trends.calls[c].data,
                              !.calls[c] = [pc |-> "idle", data |-> NoTrends]]
  /\ UNCHANGED << pipeline, besideTrends >>

\* Date.now() in the hook advances
TrendsTick ==
  /\ trends.clock + TrendStep <= MaxTrendHours
  /\ trends' = [trends EXCEPT !.clock = @ + TrendStep]
  /\ UNCHANGED << pipeline, besideTrends >>

\* the files a process before can have left: none, or the keyword "a" seen
\* at the hour 0 with one window or with three
StoredTrends ==
  {NoTrends} \cup
  {[k \in {"a"} |-> [firstSeen |-> 0, lastSeen |-> 0, consecutiveWindows |-> w]] :
     w \in {1, 3}}

TrendsInit ==
  /\ PipelineInit
  /\ fabric = FabricIdle
  /\ pq = PriorityQueue(DefaultMaxConcurrent, DefaultMaxQueueSize)
  /\ bucket = TokenBucket(DefaultRateLimit)
  /\ copy = NoCopy
  /\ dedup = FileHashManager(NoFiles)
  /\ \E file \in StoredTrends : trends = TrendsHook(file)
  /\ watch = NoWatch
  /\ gen = NoGenerate
  /\ breaker = NoBreaker
  /\ degradation = NoDegradation
  /\ tracker = CostTracker
  /\ hashInit = NewHashManager
  /\ retry = NoRetry
  /\ ingest = NoIngest

TrendsNext ==
  \/ \E c \in HotCalls : TrendsGetHot(c)
  \/ \E c \in HotCalls : TrendsLoaded(c)
  \/ \E c \in HotCalls : TrendsFetched(c)
  \/ \E c \in HotCalls : TrendsSaved(c)
  \/ TrendsTick

\* getHotKeywords calls, two at a time at most, while time passes
TrendsSpec == TrendsInit /\ [][TrendsNext]_vars

\* ------------------------------------------------------ the cost ledger

\* a process whose cost tracker has loaded the ledger of the process before,
\* or has found none
CostInit ==
  /\ BeforeDrop
  /\ ledger \in {0, PriorCalls}
  /\ fabric = FabricIdle
  /\ pq = PriorityQueue(DefaultMaxConcurrent, DefaultMaxQueueSize)
  /\ bucket = TokenBucket(DefaultRateLimit)
  /\ copy = NoCopy
  /\ dedup = FileHashManager(NoFiles)
  /\ trends = TrendsHook(NoTrends)
  /\ watch = NoWatch
  /\ gen = NoGenerate
  /\ breaker = NoBreaker
  /\ degradation = NoDegradation
  /\ tracker = CostTracker
  /\ hashInit = NewHashManager
  /\ retry = NoRetry
  /\ ingest = NoIngest

\* The behaviours of the watcher's handler alone: no manifest read fails, no
\* stage throws and no heartbeat tick fires.
CostNext ==
  \/ WatcherMove
  \/ OnFileReady
  \/ CreateProject
  \/ AdvanceClock
  \/ ProcessLoad(Watcher)
  \/ InitLoad(Watcher)
  \/ InitSave(Watcher)
  \/ Stages(Watcher)
  \/ UpdLoad(Watcher)
  \/ UpdSave(Watcher)
  \/ FinLoad(Watcher)
  \/ FinSave(Watcher)
  \/ Mark(Watcher)

\* one pipeline run in a process whose ledger may hold earlier calls
CostSpec == CostInit /\ [][CostNext]_vars

\* ------------------------------------------------- handleFileAdd alone

besideWatch == << fabric, pq, bucket, copy, dedup, trends, gen, breaker, degradation, tracker, hashInit, retry, ingest >>

\* the watcher starts: chokidar emits 'add' for a file of the incoming
\* directory, and handleFileAdd returns at once on another extension
WatchAdd ==
  /\ watch.pc = "start"
  /\ watch' =
       IF watch.loc # "incoming" THEN [watch EXCEPT !.pc = "done"]
       ELSE [watch EXCEPT !.detections = @ + 1,
                          !.redetected = watch.threw,
                          !.pc = IF Accepted(watch.ext) THEN "read" ELSE "done"]
  /\ UNCHANGED << pipeline, besideWatch >>

\* readFile resolves, or rejects into the catch block
WatchRead ==
  /\ watch.pc = "read"
  /\ \/ watch' = [watch EXCEPT !.pc = IF watch.module = "core/workflow.ts"
                                        THEN "move" ELSE "handler"]
     \/ watch' = [watch EXCEPT !.pc = "done", !.reported = @ + 1]
  /\ UNCHANGED << pipeline, besideWatch >>

\* rename resolves, or rejects into the catch block
WatchRename ==
  /\ watch.pc = "move"
  /\ \/ watch' = [watch EXCEPT !.loc = "processed",
                               !.pc = IF watch.module = "core/workflow.ts"
                                        THEN "handler" ELSE "done"]
     \/ watch' = [watch EXCEPT !.pc = "done", !.reported = @ + 1]
  /\ UNCHANGED << pipeline, besideWatch >>

\* onFileReady is invoked and resolves, or rejects into the catch block
WatchHandler ==
  /\ watch.pc = "handler"
  /\ \/ watch' = [watch EXCEPT !.invokedIn = @ \cup {watch.loc},
                               !.pc = IF watch.module = "core/workflow.ts"
                                        THEN "done" ELSE "move"]
     \/ watch' = [watch EXCEPT !.invokedIn = @ \cup {watch.loc},
                               !.threw = TRUE,
                               !.pc = "done", !.reported = @ + 1]
  /\ UNCHANGED << pipeline, besideWatch >>

\* the process is started again
WatchRestart ==
  /\ watch.pc = "done"
  /\ watch.restarts < MaxRestarts
  /\ watch' = [watch EXCEPT !.pc = "start", !.restarts = @ + 1]
  /\ UNCHANGED << pipeline, besideWatch >>

WatchInit ==
  /\ PipelineInit
  /\ fabric = FabricIdle
  /\ pq = PriorityQueue(DefaultMaxConcurrent, DefaultMaxQueueSize)
  /\ bucket = TokenBucket(DefaultRateLimit)
  /\ copy = NoCopy
  /\ dedup = FileHashManager(NoFiles)
  /\ trends = TrendsHook(NoTrends)
  /\ \E w \in Watchers, ext \in Extensions : watch = FolderWatcher(w, ext)
  /\ gen = NoGenerate
  /\ breaker = NoBreaker
  /\ degradation = NoDegradation
  /\ tracker = CostTracker
  /\ hashInit = NewHashManager
  /\ retry = NoRetry
  /\ ingest = NoIngest

WatchNext ==
  \/ WatchAdd
  \/ WatchRead
  \/ WatchRename
  \/ WatchHandler
  \/ WatchRestart

\* one dropped file, under either definition of the watcher
WatchSpec == WatchInit /\ [][WatchNext]_vars

\* ------------------------------------------------- GeminiClient.generate

besideGen == << fabric, bucket, copy, dedup, trends, watch, breaker, degradation, tracker, hashInit, retry, ingest >>

\* the ways the try block of generate ends: generateMock or
\* generateWithFallback returns, or acquire or generateWithFallback throws
Outcomes == {"returned", "threw"}

\* the finally block of generate runs when the try block has ended on outcome
finallyOnReturn(outcome) == outcome = "returned"

finallyRuns(outcome) == outcome \in Outcomes

\* the call whose enqueue has the number n
Holder(n) == CHOOSE c \in GenCalls : gen[c].ticket = n

\* generate is called: enqueue resolves at once, or waits (a waiter dropped
\* to make room has its enqueue rejected), or throws QueueFullError out of
\* generate, before the try block
GenCall(c) ==
  /\ gen[c].pc = "idle"
  /\ \E priority \in Priorities :
       LET q == enqueue(pq, priority)
           n == pq.arrivals + 1
           me == [gen[c] EXCEPT !.ticket = n]
           last == pq.queue[Len(pq.queue)].id
       IN /\ pq' = q
          /\ gen' =
               IF q.processing > pq.processing
                 THEN [gen EXCEPT ![c] = [me EXCEPT !.pc = "acquire", !.admitted = TRUE]]
               ELSE IF q.rejected > pq.rejected
                 THEN [gen EXCEPT ![c] = [me EXCEPT !.pc = "rejected"]]
               ELSE IF q.dropped > pq.dropped
                 THEN [gen EXCEPT ![c] = [me EXCEPT !.pc = "waiting"],
                                  ![Holder(last)].pc = "rejected"]
               ELSE [gen EXCEPT ![c] = [me EXCEPT !.pc = "waiting"]]
  /\ UNCHANGED << pipeline, besideGen >>

\* tokenBucket.acquire resolves, and generateMock returns in mock mode
GenAcquire(c) ==
  /\ gen[c].pc = "acquire"
  /\ gen' = IF mockMode
              THEN [gen EXCEPT ![c].pc = "finally", ![c].outcome = "returned"]
              ELSE [gen EXCEPT ![c].pc = "provider"]
  /\ UNCHANGED << pipeline, pq, besideGen >>

\* tokenBucket.acquire throws
GenAcquireFail(c) ==
  /\ gen[c].pc = "acquire"
  /\ gen' = [gen EXCEPT ![c].pc = "finally", ![c].outcome = "threw"]
  /\ UNCHANGED << pipeline, pq, besideGen >>

\* generateWithFallback returns a result or throws
GenProvider(c) ==
  /\ gen[c].pc = "provider"
  /\ \E outcome \in Outcomes :
       gen' = [gen EXCEPT ![c].pc = "finally", ![c].outcome = outcome]
  /\ UNCHANGED << pipeline, pq, besideGen >>

\* the finally block: dequeue, which resolves the enqueue of the head waiter
GenFinally(c) ==
  /\ gen[c].pc = "finally"
  /\ IF finallyRuns(gen[c].outcome)
       THEN /\ pq' = dequeue(pq)
            /\ gen' =
                 IF Len(pq.queue) > 0
                   THEN [gen EXCEPT ![c].pc = "done", ![c].dequeued = @ + 1,
                                    ![Holder(Head(pq.queue).id)].pc = "acquire",
                                    ![Holder(Head(pq.queue).id)].admitted = TRUE]
                   ELSE [gen EXCEPT ![c].pc = "done", ![c].dequeued = @ + 1]
       ELSE /\ pq' = pq
            /\ gen' = [gen EXCEPT ![c].pc = "done"]
  /\ UNCHANGED << pipeline, besideGen >>

\* a client whose queue has TinyConcurrent slots and TinyQueueSize places
GenInit ==
  /\ PipelineInit
  /\ fabric = FabricIdle
  /\ pq = PriorityQueue(TinyConcurrent, TinyQueueSize)
  /\ bucket = TokenBucket(DefaultRateLimit)
  /\ copy = NoCopy
  /\ dedup = FileHashManager(NoFiles)
  /\ trends = TrendsHook(NoTrends)
  /\ watch = NoWatch
  /\ gen = NoGenerate
  /\ breaker = NoBreaker
  /\ degradation = NoDegradation
  /\ tracker = CostTracker
  /\ hashInit = NewHashManager
  /\ retry = NoRetry
  /\ ingest = NoIngest

GenNext ==
  \E c \in GenCalls :
    \/ GenCall(c)
    \/ GenAcquire(c)
    \/ GenAcquireFail(c)
    \/ GenProvider(c)
    \/ GenFinally(c)

\* up to MaxGenCalls generate calls, overlapping in any way
GenSpec == GenInit /\ [][GenNext]_vars

\* ------------------------------------------------------------ circuit breaker

besideBreaker == << fabric, pq, bucket, copy, dedup, trends, watch, gen, degradation, tracker, hashInit, retry, ingest >>

\* a transitionTo that keeps the success count when the breaker goes half-open
transitionToKeeps(b, newState) ==
  LET moved == [b EXCEPT !.state = newState, !.lastStateChange = b.clock]
  IN  CASE newState = "open" -> [moved EXCEPT !.totalTrips = @ + 1]
        [] newState = "closed" -> [moved EXCEPT !.failures = 0, !.successes = 0,
                                                !.streak = 0]
        [] newState = "half-open" ->
             [moved EXCEPT !.successesAtHalfOpen = b.recordedSuccesses]

\* transitionTo(newState)
transitionTo(b, newState) ==
  LET moved == [b EXCEPT !.state = newState, !.lastStateChange = b.clock]
  IN  CASE newState = "open" -> [moved EXCEPT !.totalTrips = @ + 1]
        [] newState = "closed" -> [moved EXCEPT !.failures = 0, !.successes = 0,
                                                !.streak = 0]
        [] newState = "half-open" ->
             [moved EXCEPT !.successes = 0,
                           !.successesAtHalfOpen = b.recordedSuccesses]

\* getStats()
getStats(b) ==
  [state |-> b.state, failures |-> b.failures, successes |-> b.successes,
   lastFailureTime |-> b.lastFailureTime, lastStateChange |-> b.lastStateChange,
   totalTrips |-> b.totalTrips]

\* canExecute(): its result
canExecute(b) ==
  \/ b.state = "closed"
  \/ /\ b.state = "open"
     /\ b.lastFailureTime # Null
     /\ b.clock - b.lastFailureTime >= b.resetTimeoutMs
  \/ b.state = "half-open"

\* canExecute(): the breaker it leaves
afterCanExecute(b) ==
  IF b.state = "open" /\ canExecute(b) THEN transitionTo(b, "half-open") ELSE b

\* a recordSuccess that leaves the failure count of a closed breaker alone
recordSuccessKeeps(b) ==
  LET seen == [b EXCEPT !.recordedSuccesses = @ + 1, !.streak = 0]
  IN  IF b.state = "half-open"
      THEN LET counted == [seen EXCEPT !.successes = @ + 1]
           IN  IF counted.successes >= b.successThreshold
               THEN transitionTo(counted, "closed")
               ELSE counted
      ELSE seen

\* recordSuccess()
recordSuccess(b) ==
  LET seen == [b EXCEPT !.recordedSuccesses = @ + 1, !.streak = 0]
  IN  IF b.state = "half-open"
      THEN LET counted == [seen EXCEPT !.successes = @ + 1]
           IN  IF counted.successes >= b.successThreshold
               THEN transitionTo(counted, "closed")
               ELSE counted
      ELSE IF b.state = "closed"
           THEN [seen EXCEPT !.failures = 0]
           ELSE seen

\* recordFailure(error)
recordFailure(b) ==
  LET counted == [b EXCEPT !.failures = @ + 1, !.lastFailureTime = b.clock,
                           !.recordedFailures = @ + 1, !.streak = @ + 1]
  IN  IF b.state = "half-open"
      THEN transitionTo(counted, "open")
      ELSE IF b.state = "closed" /\ counted.failures >= b.failureThreshold
           THEN transitionTo(counted, "open")
           ELSE counted

\* reset()
reset(b) ==
  [transitionTo(b, "closed") EXCEPT !.failures = 0, !.successes = 0,
                                    !.lastFailureTime = Null]

\* execute(fn) up to the await of fn(), or to the throw of CircuitOpenError
BreakerExecute ==
  /\ breaker.executes < MaxExecutes
  /\ breaker' =
       IF canExecute(breaker)
       THEN [afterCanExecute(breaker) EXCEPT
               !.executes = @ + 1, !.inflight = @ + 1, !.outcome = "invoked"]
       ELSE [breaker EXCEPT
               !.executes = @ + 1, !.outcome = "CircuitOpenError",
               !.stats = getStats(breaker)]
  /\ UNCHANGED << pipeline, besideBreaker >>

\* fn() resolves: execute resumes in its try block
BreakerResolved ==
  /\ breaker.inflight > 0
  /\ breaker' = [recordSuccess(breaker) EXCEPT !.inflight = @ - 1]
  /\ UNCHANGED << pipeline, besideBreaker >>

\* fn() rejects: execute resumes in its catch block
BreakerRejected ==
  /\ breaker.inflight > 0
  /\ breaker' = [recordFailure(breaker) EXCEPT !.inflight = @ - 1]
  /\ UNCHANGED << pipeline, besideBreaker >>

\* reset() called by the owner of the breaker
BreakerReset ==
  /\ breaker.state # "closed"
  /\ breaker' = reset(breaker)
  /\ UNCHANGED << pipeline, besideBreaker >>

\* Date.now() advances
BreakerTick ==
  /\ breaker.clock < MaxBreakerTime
  /\ breaker' = [breaker EXCEPT !.clock = @ + 1]
  /\ UNCHANGED << pipeline, besideBreaker >>

BreakerNext ==
  \/ BreakerExecute
  \/ BreakerResolved
  \/ BreakerRejected
  \/ BreakerReset
  \/ BreakerTick

\* concurrent execute calls on one breaker, no pipeline run
BreakerSpec == Init /\ [][BreakerNext]_vars

\* ------------------------------------------------- degradation, run after run

besideDegradation == << fabric, pq, bucket, copy, dedup, trends, watch, gen, breaker, tracker, hashInit, retry, ingest >>

\* the fingerprints handleError can be handed: those of the stages, of the
\* state machine and the file system, of every provider error, and of a
\* validation error whose first issue has a code outside DEGRADABLE_ERROR_CODES
DegradationErrors ==
  StageErrors \cup {ZodError, TransitionError, FsError}
    \cup {parseErrorFingerprint(e) : e \in ProviderErrors}
    \cup {[type |-> "zod_validation", code |-> "custom", status |-> "none"]}

\* processProject: updateManifest writes scriptResult.modelUsed
DegradationStage ==
  /\ degradation.pc = "processing"
  /\ ~ degradation.updated
  /\ \E modelUsed \in Range(MODEL_FALLBACK_CHAIN) :
       degradation' = [degradation EXCEPT !.m.model_used = modelUsed,
                                          !.updated = TRUE]
  /\ UNCHANGED << pipeline, besideDegradation >>

\* handleError up to its call of attemptDegradedRetry, or to the normal retry
DegradationHandleError ==
  /\ degradation.pc = "processing"
  /\ \E fp \in DegradationErrors :
       LET decided == shouldDegrade(fp, degradation.m)
       IN  degradation' =
             [degradation EXCEPT !.fp = fp, !.decided = decided,
                                 !.pc = IF decided THEN "attemptDegradedRetry"
                                        ELSE "failed"]
  /\ UNCHANGED << pipeline, besideDegradation >>

\* attemptDegradedRetry: moveToDeadLetter when getNextModel returns null,
\* else the switch to the next model and the recovery callback's new run
DegradationRetry ==
  /\ degradation.pc = "attemptDegradedRetry"
  /\ degradation' =
       IF getNextModel(degradation.m) = 0
       THEN [degradation EXCEPT !.pc = "dead_letter"]
       ELSE [degradation EXCEPT !.m = DegradeWrite(degradation.m),
                                !.pc = "processing", !.updated = FALSE]
  /\ UNCHANGED << pipeline, besideDegradation >>

DegradationNext ==
  \/ DegradationStage
  \/ DegradationHandleError
  \/ DegradationRetry

\* the error handling of one project alone, every run of it failing or not
DegradationSpec == Init /\ [][DegradationNext]_vars

\* ---------------------------------------------------------------- cost tracker

besideTracker == << fabric, pq, bucket, copy, dedup, trends, watch, gen, breaker, degradation, hashInit, retry, ingest >>

\* what ./data/cost_report.json holds after PriorCalls calls of an earlier run
StoredReport ==
  [total_tokens_used |-> PriorCalls * TokensPerCall,
   tokens_by_model |-> TokensByModel(PriorCalls * TokensPerCall),
   estimated_cost_usd |->
     PriorCalls * TokensPerCall * TOKEN_PRICES_USD[MODEL_FALLBACK_CHAIN[1]],
   api_calls_count |-> PriorCalls]

\* a CostTracking object with the object its tokens_by_model refers to
Deref(d, heap) == [d EXCEPT !.tokens_by_model = heap[d.tokens_by_model]]

\* record(model, tokens)
record(t, model, tokens) ==
  [t EXCEPT
     !.data.total_tokens_used = @ + tokens,
     !.data.api_calls_count = @ + 1,
     !.heap[t.data.tokens_by_model] =
        IF model \in DOMAIN @ THEN [@ EXCEPT ![model] = @ + tokens] ELSE @,
     !.data.estimated_cost_usd = @ + tokens * TOKEN_PRICES_USD[model],
     !.records = @ + 1]

\* getReport(): { ...this.data }, a new object with the fields of data
getReport(t) == t.data

\* init(): readFile throws, or JSON.parse builds new objects
TrackerLoad ==
  /\ ~ tracker.loaded
  /\ \/ tracker' = [tracker EXCEPT !.loaded = TRUE]
     \/ tracker' = [tracker EXCEPT
                      !.data = [StoredReport EXCEPT !.tokens_by_model = Parsed],
                      !.heap[Parsed] = StoredReport.tokens_by_model,
                      !.loaded = TRUE]
  /\ UNCHANGED << pipeline, besideTracker >>

\* costTracker.record(model, tokens)
TrackerRecord ==
  /\ tracker.records < MaxRecords
  /\ \E model \in DOMAIN TOKEN_PRICES_USD :
       tracker' = record(tracker, model, TokensPerCall)
  /\ UNCHANGED << pipeline, besideTracker >>

\* costTracker.getReport(), the caller keeping what it returns
TrackerGetReport ==
  /\ Len(tracker.reports) < MaxReports
  /\ tracker' = [tracker EXCEPT
       !.reports = Append(@, [view |-> getReport(tracker),
                              taken |-> Deref(getReport(tracker), tracker.heap)])]
  /\ UNCHANGED << pipeline, besideTracker >>

TrackerNext ==
  \/ TrackerLoad
  \/ TrackerRecord
  \/ TrackerGetReport

\* the cost tracker alone: record calls and reports in any order
TrackerSpec == Init /\ [][TrackerNext]_vars

\* --------------------------------------------------------- hash index, init

besideHashInit == << fabric, pq, bucket, copy, dedup, trends, watch, gen, breaker, degradation, tracker, retry, ingest >>

\* the hashes processed_hashes.json holds when it exists
PersistedHashes == << MD5("x") >>

\* init: if (this.initPromise), with the lock ignored
initInProgressIgnored(h) == FALSE

\* init: if (this.initPromise)
initInProgress(h) == h.initPromise # Null

\* _doInit has run to its end
LoadFinished(h) == h.initialized /\ h.doInit = "idle"

\* init() or the start of isAlreadyProcessed, markAsProcessed or cleanup, up to its
\* first await or its return; _doInit runs up to its await of mkdir
HashInitCall(c) ==
  /\ hashInit.callers[c].pc = "idle"
  /\ \E kind \in InitCallKinds :
       hashInit' =
         IF hashInit.initialized
         THEN [hashInit EXCEPT
                 !.callers[c] = [pc |-> "returned", kind |-> kind,
                                 promise |-> Null,
                                 finished |-> LoadFinished(hashInit)]]
         ELSE IF initInProgress(hashInit)
         THEN [hashInit EXCEPT
                 !.callers[c] = [pc |-> "waiting", kind |-> kind,
                                 promise |-> hashInit.initPromise,
                                 finished |-> FALSE]]
         ELSE [hashInit EXCEPT
                 !.started = @ + 1,
                 !.initPromise = hashInit.started + 1,
                 !.doInit = "mkdir",
                 !.callers[c] = [pc |-> "owner", kind |-> kind,
                                 promise |-> hashInit.started + 1,
                                 finished |-> FALSE]]
  /\ UNCHANGED << pipeline, besideHashInit >>

\* _doInit: mkdir resolves, or rejects and the catch starts fresh
HashInitMkdir ==
  /\ hashInit.doInit = "mkdir"
  /\ \/ hashInit' = [hashInit EXCEPT !.doInit = "readFile"]
     \/ hashInit' = [hashInit EXCEPT
                       !.doInit = "idle", !.initialized = TRUE,
                       !.settled = @ \cup {hashInit.started}]
  /\ UNCHANGED << pipeline, besideHashInit >>

\* _doInit: readFile resolves and the entries go into the index, or it
\* rejects and the catch starts fresh
HashInitRead ==
  /\ hashInit.doInit = "readFile"
  /\ \/ hashInit' = [hashInit EXCEPT
                       !.processedFiles = @ \cup Range(PersistedHashes),
                       !.sizeIndex = @ \o PersistedHashes,
                       !.loads = @ + 1,
                       !.doInit = "idle", !.initialized = TRUE,
                       !.settled = @ \cup {hashInit.started}]
     \/ hashInit' = [hashInit EXCEPT
                       !.doInit = "idle", !.initialized = TRUE,
                       !.settled = @ \cup {hashInit.started}]
  /\ UNCHANGED << pipeline, besideHashInit >>

\* init resumes after await this.initPromise: finally clears the lock
HashInitOwner(c) ==
  /\ hashInit.callers[c].pc = "owner"
  /\ hashInit.callers[c].promise \in hashInit.settled
  /\ hashInit' = [hashInit EXCEPT
       !.initPromise = Null,
       !.callers[c].pc = "returned",
       !.callers[c].finished = LoadFinished(hashInit)]
  /\ UNCHANGED << pipeline, besideHashInit >>

\* the promise init returned to a caller that found the lock taken resolves
HashInitWaiter(c) ==
  /\ hashInit.callers[c].pc = "waiting"
  /\ hashInit.callers[c].promise \in hashInit.settled
  /\ hashInit' = [hashInit EXCEPT
       !.callers[c].pc = "returned",
       !.callers[c].finished = LoadFinished(hashInit)]
  /\ UNCHANGED << pipeline, besideHashInit >>

HashInitNext ==
  \/ \E c \in InitCallers : HashInitCall(c)
  \/ HashInitMkdir
  \/ HashInitRead
  \/ \E c \in InitCallers : HashInitOwner(c)
  \/ \E c \in InitCallers : HashInitWaiter(c)

\* init called by several callers at once, no pipeline run
HashInitSpec == Init /\ [][HashInitNext]_vars

\* -------------------------------------------------------------- withRetry

besideRetry == << fabric, pq, bucket, copy, dedup, trends, watch, gen, breaker, degradation, tracker, hashInit, ingest >>

\* a backoff whose jitter factor is 1 + Math.random()
backoffUnhalved(baseDelayMs, attempt, random) ==
  (baseDelayMs * 2 ^ (attempt - 1) * (1000 + random)) \div 1000

\* baseDelayMs * Math.pow(2, attempt - 1) * (0.5 + Math.random() * 0.5), as
\* setTimeout takes it: whole milliseconds
backoff(baseDelayMs, attempt, random) ==
  (baseDelayMs * 2 ^ (attempt - 1) * (1000 + random)) \div 2000

\* withRetry(fn, options) up to the first await fn(), or to the throw after
\* a loop that never ran
WithRetryCall ==
  /\ retry.pc = "idle"
  /\ \E retries \in 0..MaxRetriesOption :
       retry' = IF 1 <= retries
                THEN [retry EXCEPT !.maxRetries = retries, !.pc = "fn"]
                ELSE [retry EXCEPT !.maxRetries = retries, !.pc = "thrown",
                                   !.thrown = RetryLoopExhausted]
  /\ UNCHANGED << pipeline, besideRetry >>

\* fn() resolves: withRetry returns its result
WithRetryResolved ==
  /\ retry.pc = "fn"
  /\ retry' = [retry EXCEPT !.invocations = @ + 1, !.pc = "returned"]
  /\ UNCHANGED << pipeline, besideRetry >>

\* fn() rejects with e: rethrown on the last attempt, else onRetry and the
\* timeout
WithRetryRejected ==
  /\ retry.pc = "fn"
  /\ \E e \in ProviderErrors, random \in RandomSamples :
       retry' =
         IF retry.attempt = retry.maxRetries
         THEN [retry EXCEPT !.invocations = @ + 1, !.errors = Append(@, e),
                            !.pc = "thrown", !.thrown = e]
         ELSE [retry EXCEPT !.invocations = @ + 1, !.errors = Append(@, e),
                            !.delays = Append(@, backoff(retry.baseDelayMs,
                                                         retry.attempt, random)),
                            !.pc = "sleep"]
  /\ UNCHANGED << pipeline, besideRetry >>

\* the timeout fires: attempt++ and the next await fn()
WithRetryWake ==
  /\ retry.pc = "sleep"
  /\ retry' = [retry EXCEPT !.attempt = @ + 1, !.pc = "fn"]
  /\ UNCHANGED << pipeline, besideRetry >>

WithRetryNext ==
  \/ WithRetryCall
  \/ WithRetryResolved
  \/ WithRetryRejected
  \/ WithRetryWake

\* one call of withRetry for every maxRetries, fn failing or not
WithRetrySpec == Init /\ [][WithRetryNext]_vars

\* ------------------------------------------- from the file to its manifest

besideIngest == << fabric, pq, bucket, copy, dedup, trends, watch, gen, breaker, degradation, tracker, hashInit, retry >>

\* the contents of the files dropped: every string of at most MaxContentLen
\* characters, the empty and the white-space-only ones included
FileContents == UNION {[1..n -> Chars] : n \in 0..MaxContentLen}

\* the durations the script's JSON can carry (it is parsed, not validated)
ScriptDurations == {0, 60}

\* content.match(/[一-龥]/g).length
ChineseChars(content) == Cardinality({i \in 1..Len(content) : content[i] = "zh"})

\* detectLanguage: ratio > 0.3, where 0 / 0 is NaN and NaN > 0.3 is false
detectLanguage(content) ==
  IF Len(content) > 0 /\ 10 * ChineseChars(content) > 3 * Len(content)
  THEN "zh" ELSE "en"

\* countWords: the Chinese characters, or the runs of characters that
\* split(/\s+/).filter(Boolean) leaves
countWords(content, language) ==
  IF language = "zh" THEN ChineseChars(content)
  ELSE Cardinality({i \in 1..Len(content) :
                      /\ content[i] # " "
                      /\ i = 1 \/ content[i - 1] = " "})

\* calculateReadingTime: Math.ceil(wordCount / wpm)
calculateReadingTime(wordCount, language) ==
  LET wpm == IF language = "en" THEN 200 ELSE 300
  IN  (wordCount + wpm - 1) \div wpm

\* ProjectManifestSchema.parse succeeds on m: the fields whose values vary
\* here, z.number().positive() each
ProjectManifestSchema(m) ==
  /\ m.word_count > 0
  /\ m.estimated_reading_time_minutes > 0
  /\ m.has_content_engine => m.estimated_duration_seconds > 0

\* handleFileAdd: readFile, analyzeContent and rename, for an accepted file
IngestFileAdd ==
  /\ ingest.pc = "incoming"
  /\ \E content \in FileContents :
       LET language == detectLanguage(content)
           wordCount == countWords(content, language)
       IN  ingest' = [ingest EXCEPT
             !.pc = "onFileReady", !.content = content, !.language = language,
             !.wordCount = wordCount,
             !.estimatedReadingTimeMinutes =
                calculateReadingTime(wordCount, language)]
  /\ UNCHANGED << pipeline, besideIngest >>

\* onFileReady: createProject writes the manifest
IngestCreateProject ==
  /\ ingest.pc = "onFileReady"
  /\ ingest' = [ingest EXCEPT
       !.pc = "created", !.written = @ + 1,
       !.manifest = [NoInput EXCEPT
          !.word_count = ingest.wordCount,
          !.estimated_reading_time_minutes = ingest.estimatedReadingTimeMinutes]]
  /\ UNCHANGED << pipeline, besideIngest >>

\* processProject: loadManifest before the try block; when the parse throws
\* the rejection ends in the watcher's onError and the project stays pending
IngestLoadManifest ==
  /\ ingest.pc = "created"
  /\ ingest' = [ingest EXCEPT
       !.pc = IF ProjectManifestSchema(ingest.manifest) THEN "processing"
              ELSE "unloadable"]
  /\ UNCHANGED << pipeline, besideIngest >>

\* updateManifest with the updater of processProject: content_engine takes
\* scriptData.estimated_duration_seconds ?? 60 as the script's JSON gave it
IngestUpdateManifest ==
  /\ ingest.pc = "processing"
  /\ \E duration \in ScriptDurations :
       ingest' = [ingest EXCEPT
         !.pc = "updated", !.written = @ + 1,
         !.manifest.has_content_engine = TRUE,
         !.manifest.estimated_duration_seconds = duration]
  /\ UNCHANGED << pipeline, besideIngest >>

\* transitionState(projectId, 'rendering'): loadManifest
IngestReload ==
  /\ ingest.pc = "updated"
  /\ ingest' = [ingest EXCEPT
       !.pc = IF ProjectManifestSchema(ingest.manifest) THEN "rendering"
              ELSE "unloadable"]
  /\ UNCHANGED << pipeline, besideIngest >>

IngestNext ==
  \/ IngestFileAdd
  \/ IngestCreateProject
  \/ IngestLoadManifest
  \/ IngestUpdateManifest
  \/ IngestReload

\* one file of any content, from the watcher to the loads of its manifest
IngestSpec == Init /\ [][IngestNext]_vars

\* ================================================================ claims

\* the tasks inside processProject
Running == {t \in Tasks : tasks[t].nest > 0}

\* ---------------------------------------------------------------- C1
\* C1: every change of the persisted status, from s to t, is a transition of
\* the table: t is in STATE_TRANSITIONS[s].
C1_TransitionsInTable ==
  [][(disk # NoManifest /\ disk'.status # disk.status)
       => disk'.status \in STATE_TRANSITIONS[disk.status]]_vars

\* ---------------------------------------------------------------- C2
\* C2: at most one task is inside processProject for the project, and at most
\* one task is between a read of the manifest and the write that follows it.
C2_OneRunInFlight ==
  /\ Cardinality(Running) <= 1
  /\ Cardinality(Holding) <= 1

\* ---------------------------------------------------------------- C3
\* C3: once the persisted status is completed or dead_letter, no step changes it.
C3_TerminalStays ==
  [][(disk # NoManifest /\ disk.status \in {"completed", "dead_letter"})
       => disk'.status = disk.status]_vars

\* ---------------------------------------------------------------- C4
\* C4: the persisted retry_count is at most MAX_RETRIES unless the status is
\* dead_letter.
C4_RetryBound ==
  disk # NoManifest =>
    (disk.retry_count <= MAX_RETRIES \/ disk.status = "dead_letter")

\* ---------------------------------------------------------------- C5
\* C5: the persisted stale_recovery_count is at most MAX_STALE_RECOVERY_COUNT
\* unless the status is failed or dead_letter, and stale recovery re-enters
\* the project into the pipeline at most MAX_STALE_RECOVERY_COUNT times.
C5_StaleBound ==
  /\ disk # NoManifest =>
       \/ disk.stale_recovery_count <= MAX_STALE_RECOVERY_COUNT
       \/ disk.status \in {"failed", "dead_letter"}
  /\ reentries <= MAX_STALE_RECOVERY_COUNT

\* ---------------------------------------------------------------- C6
IsPrefix(s, t) == Len(s) <= Len(t) /\ \A i \in 1..Len(s) : s[i] = t[i]

\* C6: the persisted used_models is a prefix, in order, of the model chain and
\* does not contain current_model.
C6_FallbackMonotone ==
  disk # NoManifest =>
    /\ IsPrefix(disk.used_models,
                [i \in 1..Len(MODEL_HIERARCHY) |-> MODEL_HIERARCHY[i].name])
    /\ disk.current_model \notin Range(disk.used_models)

\* ---------------------------------------------------------------- C7
\* no LLM call, validation step or file operation of the pipeline has failed
Faultless == observed \subseteq {"stages_ok"}

C7_Final ==
  (tasks[Watcher].pc = "done" /\ Faultless /\ recoveries = 0) =>
    /\ fileLoc = "processed"
    /\ created = 1
    /\ disk.status = "rendering"
    /\ hashMarked
    /\ IF mockMode THEN disk.api_calls_count = 0
                   ELSE /\ disk.api_calls_count >= ScriptCalls + SeoCalls + ShortsCalls
                        /\ disk.api_calls_count >= 3

C7_Path ==
  (Faultless' /\ recoveries' = 0 /\ disk'.status # disk.status) =>
    << disk.status, disk'.status >> \in
      { << "none", "pending" >>, << "pending", "analyzing" >>,
        << "analyzing", "rendering" >> }

C8_DegradedRunRenders ==
  ( /\ tasks[Watcher].pc = "done"
    /\ "invalid_output" \in observed
    /\ observed \subseteq {"invalid_output", "stages_ok"}
    /\ recoveries = 0 ) =>
    /\ disk.status = "rendering"
    /\ disk.used_models = << MODEL_HIERARCHY[1].name >>
    /\ disk.current_model = MODEL_HIERARCHY[2].name
    /\ disk.is_fallback_mode

\* ---------------------------------------------------------------- C9
\* C9: when every run of the stages has failed with a degradable error and the
\* heartbeat has not stepped in, the handler returns with the project in
\* dead_letter, one snapshot under dead-letter/ and one alert.
C9_ExhaustionDeadLetters ==
  ( /\ tasks[Watcher].pc = "done"
    /\ observed = {"500"}
    /\ recoveries = 0 ) =>
    /\ disk.status = "dead_letter"
    /\ deadLetterFiles = 1
    /\ alerts = 1

\* ---------------------------------------------------------------- C10
\* C10: recoverStaleProject writes stale_recovered, with the count one higher,
\* only for a manifest that is stale when it is read; the tick's next write is
\* pending, and with it the recovery callback is invoked, once.
C10_RecoveryOrder ==
  [][\A t \in Ticks :
       /\ (At(t, "rc_save") /\ tasks'[t].pc # "rc_save") =>
            /\ IsStale(tasks[t].m, now)
            /\ tasks[t].m.stale_recovery_count < MAX_STALE_RECOVERY_COUNT =>
                 /\ disk'.status = "stale_recovered"
                 /\ disk'.stale_recovery_count = tasks[t].m.stale_recovery_count + 1
       /\ (At(t, "rc_tsave") /\ tasks'[t].pc # "rc_tsave") =>
            /\ disk'.status = "pending"
            /\ reentries' = reentries + 1
            /\ tasks'[t].pc = "p_load"]_vars

\* ---------------------------------------------------------------- C11
\* C11: an error of the provider with status 429, 401 or 403 never makes
\* generateWithFallback go on to another model, and when it is surfaced
\* shouldDegrade does not decide to degrade.
C11_RateLimitNotDegraded ==
  /\ [][fabric'.modelIdx > fabric.modelIdx
          => fabric'.err.status \notin RateLimitOrAuth]_vars
  /\ []((fabric.pc = "handled" /\ fabric.err.status \in RateLimitOrAuth)
          => ~fabric.degrade)

\* ---------------------------------------------------------------- C12
\* the calls of transitionState: where it reads, where it writes, its target
TransitionCalls ==
  { << "init_load", "init_save", "analyzing" >>,
    << "fin_load", "fin_save", "rendering" >>,
    << "adr_tload", "adr_tsave", "analyzing" >>,
    << "rc_tload", "rc_tsave", "pending" >> }

\* C12: transitionState with a target that the table does not allow from the
\* status it reads throws and writes nothing; with an allowed target it writes
\* the manifest it read with the new status and updated_at = now.
C12_TransitionContract ==
  [][\A t \in Tasks, c \in TransitionCalls :
       /\ (At(t, c[1]) /\ tasks'[t].pc # c[1]) =>
            /\ disk' = disk
            /\ (Loadable(disk) /\ c[3] \notin STATE_TRANSITIONS[disk.status])
                 => tasks'[t].pc \in {"h_load", "done"}
            /\ tasks'[t].pc = c[2] => c[3] \in STATE_TRANSITIONS[disk.status]
       /\ (At(t, c[2]) /\ tasks'[t].pc # c[2]) =>
            /\ c[3] \in STATE_TRANSITIONS[tasks[t].m.status]
            /\ disk' = [tasks[t].m EXCEPT !.status = c[3], !.updated_at = now]]_vars

\* a transition was persisted (analyzing, stamped now) and the next one,
\* analyzing -> analyzing, has been refused
C12_Witness ==
  \E t \in Tasks :
    /\ tasks[t].pc = "h_load"
    /\ tasks[t].err = TransitionError
    /\ disk.status = "analyzing"
    /\ disk.updated_at = now
    /\ now > 0

\* ---------------------------------------------------------------- C13
\* waiter x is served before waiter y: a higher priority, or the same
\* priority and an earlier arrival
ServedBefore(x, y) ==
  \/ PRIORITY_WEIGHTS[x.priority] < PRIORITY_WEIGHTS[y.priority]
  \/ x.priority = y.priority /\ x.id < y.id

\* C13: the waiter that a dequeue admits is served before every other waiter
\* that is waiting at that moment (a higher priority first, arrival order
\* within a priority), and a call is admitted without waiting only when no
\* waiter is waiting.
C13_AdmissionOrder ==
  [][/\ Len(pq'.admitted) > Len(pq.admitted) =>
          \A i \in 1..Len(pq.queue) :
            \/ pq.queue[i] = pq'.admitted[Len(pq'.admitted)]
            \/ ServedBefore(pq'.admitted[Len(pq'.admitted)], pq.queue[i])
     /\ (pq'.arrivals > pq.arrivals /\ pq'.processing > pq.processing) =>
          pq.queue = << >>]_vars

\* waiters of different priorities were admitted, a later arrival of a higher
\* priority before an earlier arrival of a lower one, while a third waited
C13_Witness ==
  /\ Len(pq.admitted) >= 2
  /\ PRIORITY_WEIGHTS[pq.admitted[1].priority] < PRIORITY_WEIGHTS[pq.admitted[2].priority]
  /\ pq.admitted[1].id > pq.admitted[2].id
  /\ pq.queue # << >>

\* ---------------------------------------------------------------- C14
\* C14: of the calls issued at the same instant none is rejected: no enqueue
\* throws QueueFullError and no waiter is dropped from the queue.
C14_BurstNotRejected ==
  /\ pq.rejected = 0
  /\ pq.dropped = 0

\* ---------------------------------------------------------------- C15
RECURSIVE Admitted(_, _, _)
\* the acquire calls that returned on b at the times a .. z
Admitted(b, a, z) == IF a > z THEN 0 ELSE b.admitted[a] + Admitted(b, a + 1, z)

\* C15: in every window of time, from a to z, the number of acquire calls
\* that returned is at most maxTokens plus the tokens refilled in z - a
\* (one for each unit of time).
C15_RateBound ==
  \A a \in 0..bucket.time : \A z \in a..bucket.time :
    Admitted(bucket, a, z) <= bucket.maxTokens + (z - a)

\* ---------------------------------------------------------------- C16
\* C16: for the file and its copy together at most one manifest is created,
\* and when the copy's handler has returned the copy is in processed.
C16_DuplicateSkipped ==
  /\ created <= 1
  /\ copy.pc = "done" => copy.loc = "processed"

\* ---------------------------------------------------------------- C17
\* C17: when isAlreadyProcessed(p) is the call after markAsProcessed(p, h,
\* id), where the file p exists and h is the hash of its content, its result
\* is processed, by hash_match, with the project id.
C17_DedupIdempotent ==
  ( /\ dedup.op = "check"
    /\ dedup.result.path = dedup.lastMark.path
    /\ dedup.fs[dedup.lastMark.path] # Missing
    /\ MD5(dedup.fs[dedup.lastMark.path]) = dedup.lastMark.hash ) =>
    /\ dedup.result.isProcessed
    /\ dedup.result.checkMethod = "hash_match"
    /\ dedup.result.projectId = dedup.lastMark.projectId

\* a file of one byte was marked, after another hash had been marked for the
\* other project, and then found
C17_Witness ==
  /\ dedup.op = "check"
  /\ dedup.marks >= 2
  /\ dedup.result.path = dedup.lastMark.path
  /\ dedup.fs[dedup.lastMark.path] = "x"
  /\ dedup.lastMark.hash = MD5("x")
  /\ dedup.result.isProcessed
  /\ dedup.result.projectId = "p2"
  /\ dedup.processedFiles[MD5("y")].projectId = "p1"


\* ---------------------------------------------------------------- C18
\* C18: for every k >= 1, a stored entry that has not been observed for at
\* least k * 24 hours has had consecutive_windows decremented at least k times
\* since it was last observed (a removed entry is not stored).  It is read
\* where it asks least of the store: in the states where a decay pass has run
\* at the present hour.
C18_TrendDecay ==
  trends.decayedAt = trends.clock =>
    \A kw \in DOMAIN trends.cache : \A k \in 1..(MaxTrendHours \div DECAY_THRESHOLD_HOURS) :
      trends.clock - trends.cache[kw].lastSeen >= k * DECAY_THRESHOLD_HOURS
        => trends.decays[kw] >= k

\* ---------------------------------------------------------------- C19
\* the entries of a cache or of a file are well formed
WellFormed(entries) ==
  \A kw \in DOMAIN entries :
    /\ entries[kw].consecutiveWindows >= 1
    /\ entries[kw].firstSeen <= entries[kw].lastSeen

\* C19: whatever getHot calls have run, overlapping at the fetch or not, every
\* entry of the store (the cache, the file, and what a call is writing) has
\* consecutive_windows >= 1 and first_seen <= last_seen.
C19_TrendStoreInvariants ==
  /\ WellFormed(trends.cache)
  /\ WellFormed(trends.file)
  /\ \A c \in HotCalls : WellFormed(trends.calls[c].data)

\* two calls have awaited the fetch together, an entry with one window left
\* has been removed by a decay pass, and another entry is stored after it
\* was decremented
C19_Witness ==
  /\ trends.overlapped
  /\ trends.removed # {}
  /\ \E kw \in DOMAIN trends.cache : trends.decays[kw] >= 1


\* ---------------------------------------------------------------- C20
\* C20: the total_tokens_used and the api_calls_count that a run writes at
\* MANIFEST_UPDATE are the increase of the global ledger's tokens and calls
\* between the snapshot the run took when it entered processProject and
\* MANIFEST_UPDATE.  (Until MANIFEST_UPDATE the run's tokens local is that
\* entry snapshot, which is TokensPerCall times the calls of the ledger then.)
C20_CostIsDelta ==
  [][\A t \in Tasks :
       /\ (At(t, "stages") /\ tasks'[t].pc = "upd_load") =>
            /\ tasks'[t].tokens = getTokenSnapshot(ledger') - tasks[t].tokens
            /\ tasks'[t].calls = ledger' - (tasks[t].tokens \div TokensPerCall)
       /\ (At(t, "upd_save") /\ tasks'[t].pc = "fin_load") =>
            /\ disk'.total_tokens_used = tasks[t].tokens
            /\ disk'.api_calls_count = tasks[t].calls]_vars


\* ---------------------------------------------------------------- C21
\* C21: the ready handler is only invoked on a file that is already in the
\* processed directory, and once the handler has thrown the error has been
\* reported, the file is in the processed directory and stays there, and it
\* is not detected again.
C21_MoveBeforeHandler ==
  /\ watch.invokedIn \subseteq {"processed"}
  /\ watch.threw => /\ watch.reported >= 1
                    /\ watch.loc = "processed"
                    /\ ~ watch.redetected


\* ---------------------------------------------------------------- C22
\* C22: in every reachable state the persisted manifest has is_dead_letter =
\* true if and only if its status is dead_letter.
C22_DeadLetterFlag ==
  disk # NoManifest => (disk.is_dead_letter <=> disk.status = "dead_letter")


\* ---------------------------------------------------------------- C23
\* the waiters of a queue, by the number of their enqueue call
Waiting(queue) == {queue[i].id : i \in 1..Len(queue)}

\* C23: an enqueue of the priority p on a full queue (every slot taken, every
\* waiting place taken) either finds the last waiter of a strictly lower
\* priority, and then exactly that waiter leaves the queue, the incoming
\* request waits in it and the in-flight count is unchanged, or it is rejected
\* and the queue and the in-flight count are unchanged.
C23_FullQueue ==
  [][\A p \in Priorities :
       (/\ pq.processing = pq.maxConcurrent
        /\ Len(pq.queue) = pq.maxQueueSize
        /\ pq' = enqueue(pq, p)) =>
         LET last == pq.queue[Len(pq.queue)]
         IN IF PRIORITY_WEIGHTS[last.priority] > PRIORITY_WEIGHTS[p]
              THEN /\ Waiting(pq'.queue) =
                        (Waiting(pq.queue) \ {last.id}) \cup {pq.arrivals + 1}
                   /\ \E i \in 1..Len(pq'.queue) :
                        pq'.queue[i] = [priority |-> p, id |-> pq.arrivals + 1]
                   /\ pq'.dropped = pq.dropped + 1
                   /\ pq'.rejected = pq.rejected
                   /\ pq'.processing = pq.processing
              ELSE /\ pq'.queue = pq.queue
                   /\ pq'.rejected = pq.rejected + 1
                   /\ pq'.dropped = pq.dropped
                   /\ pq'.processing = pq.processing]_vars

\* a full queue has dropped its last waiter for one request and rejected
\* another request
C23_Witness ==
  /\ pq.dropped >= 1
  /\ pq.rejected >= 1
  /\ pq.processing = pq.maxConcurrent
  /\ Len(pq.queue) = pq.maxQueueSize


\* ---------------------------------------------------------------- C24
\* C24: whatever enqueue calls, and dequeue calls by admitted callers, have
\* run, the in-flight count is between 0 and the maximum concurrency, the
\* waiters are no more than the maximum waiting, and the in-flight count is
\* the number of admitted callers that have not called dequeue yet.
C24_QueueBounds ==
  /\ 0 <= pq.processing
  /\ pq.processing <= pq.maxConcurrent
  /\ Len(pq.queue) <= pq.maxQueueSize
  /\ pq.processing = pq.holding

\* every slot and every waiting place is taken, after a dequeue has admitted
\* a waiter and an enqueue has dropped one
C24_Witness ==
  /\ pq.processing = pq.maxConcurrent
  /\ Len(pq.queue) = pq.maxQueueSize
  /\ Len(pq.admitted) >= 1
  /\ pq.dropped >= 1
  /\ pq.holding = SmallConcurrent


\* ---------------------------------------------------------------- C25
\* C25: a generate call that the queue admitted and that has ended has called
\* dequeue exactly once, however it ended; no call calls dequeue more than
\* once or before it is admitted; a call whose enqueue was rejected never
\* calls dequeue; and when no generate call is in progress the in-flight
\* count is 0.
C25_DequeueOnAllPaths ==
  /\ \A c \in GenCalls :
       /\ gen[c].dequeued <= 1
       /\ gen[c].dequeued = 1 => gen[c].admitted
       /\ (gen[c].pc = "done") => (gen[c].admitted /\ gen[c].dequeued = 1)
       /\ (gen[c].pc = "rejected") => (~ gen[c].admitted /\ gen[c].dequeued = 0)
  /\ (\A c \in GenCalls : gen[c].pc \in {"idle", "done", "rejected"})
       => pq.processing = 0

\* every call has ended: one returned, one threw after it was admitted, one
\* was refused by the full queue and one was dropped from it
C25_Witness ==
  /\ \A c \in GenCalls : gen[c].pc \in {"done", "rejected"}
  /\ \E c \in GenCalls : gen[c].pc = "done" /\ gen[c].outcome = "returned"
  /\ \E c \in GenCalls : gen[c].pc = "done" /\ gen[c].outcome = "threw"
  /\ pq.rejected >= 1
  /\ pq.dropped >= 1


\* ---------------------------------------------------------------- C27
\* the position of the model m in the fallback chain, from 0
Position(m) == Min({i \in 1..Len(MODEL_FALLBACK_CHAIN) : MODEL_FALLBACK_CHAIN[i] = m}) - 1

\* C27: a generate call with preferredModel = m invokes no model that
\* precedes m in the fallback chain.
C27_PreferredModelFirst ==
  fabric.preferredModel # NoModel =>
    \A i \in fabric.called : i >= Position(fabric.preferredModel)

\* ---------------------------------------------------------------- C28
\* C28: within a generate call the next model of the chain is taken up only
\* when the model before it has failed its maxRetries-th attempt; the call
\* returns at its first successful attempt, which the cost tracker records
\* once; and it throws only "All models failed", and only when the last model
\* of the chain has failed maxRetries attempts, nothing having been recorded.
C28_FallbackOrder ==
  /\ [][/\ fabric'.modelIdx > fabric.modelIdx =>
             /\ fabric'.modelIdx = fabric.modelIdx + 1
             /\ fabric.attempt = maxRetries
             /\ fabric.modelIdx \in fabric'.called
        /\ ledger' # ledger =>
             /\ ledger' = ledger + 1
             /\ fabric'.pc = "returned"
             /\ fabric'.recorded = 1]_vars
  /\ [](fabric.pc \in {"thrown", "handled"} =>
          /\ fabric.thrown = "All models failed"
          /\ fabric.modelIdx = Len(MODEL_FALLBACK_CHAIN) - 1
          /\ fabric.attempt = maxRetries
          /\ fabric.called = 0..(Len(MODEL_FALLBACK_CHAIN) - 1)
          /\ fabric.recorded = 0)
  /\ []((fabric.pc = "returned" /\ ~ mockMode) => fabric.recorded = 1)

\* a call has returned and been recorded, and the call after it has thrown
\* when every model of the chain had failed every attempt
C28_Witness ==
  /\ fabric.pc = "thrown"
  /\ fabric.called = 0..(Len(MODEL_FALLBACK_CHAIN) - 1)
  /\ fabric.generated = 2
  /\ ledger = 1


\* ---------------------------------------------------------------- C26
\* C26: a heartbeat tick does not wait for the pipeline run its recovery
\* callback re-enters (the run is never part of the tick's own call chain),
\* and no tick starts while an earlier tick is waiting on a recovery.
C26_HeartbeatAsync ==
  /\ [](\A t \in Ticks : tasks[t].nest = 0)
  /\ [][\A t \in Ticks :
          (At(t, "idle") /\ tasks'[t].pc = "hb_scan")
            => \A u \in Ticks : tasks[u].nest = 0]_vars


\* C29: while the breaker is closed every execute invokes the callee; a
\* recorded success leaves the failure count at 0; and the breaker opens in
\* exactly the steps that record the failureThreshold-th failure since the
\* last recorded success (or since the breaker closed).
C29_ClosedBreaker ==
  /\ [](breaker.state = "closed"
          => /\ breaker.failures = breaker.streak
             /\ breaker.streak < breaker.failureThreshold)
  /\ [][breaker.state = "closed"
          => /\ breaker'.executes = breaker.executes + 1
                  => /\ breaker'.outcome = "invoked"
                     /\ breaker'.inflight = breaker.inflight + 1
             /\ breaker'.recordedSuccesses = breaker.recordedSuccesses + 1
                  => /\ breaker'.failures = 0
                     /\ breaker'.state = "closed"
             /\ breaker'.state = "open"
                  <=> /\ breaker'.recordedFailures = breaker.recordedFailures + 1
                      /\ breaker'.streak = breaker.failureThreshold]_vars

\* C29 witness: a closed breaker has taken a failure, then a success that
\* reset the count, and has opened later.
C29_Witness ==
  /\ breaker.state = "open"
  /\ breaker.recordedSuccesses = 1
  /\ breaker.recordedFailures = SmallFailureThreshold + 1
  /\ breaker.totalTrips = 1

\* C30: an execute on an open breaker is admitted, moving the breaker to
\* half-open, when resetTimeoutMs has elapsed since the breaker opened,
\* whatever failures were recorded in between; otherwise it throws
\* CircuitOpenError with the stats of that moment and does not invoke the callee.
C30_OpenBreaker ==
  [][(breaker.state = "open" /\ breaker'.executes = breaker.executes + 1)
       => IF breaker.clock - breaker.lastStateChange >= breaker.resetTimeoutMs
          THEN /\ breaker'.state = "half-open"
               /\ breaker'.outcome = "invoked"
               /\ breaker'.inflight = breaker.inflight + 1
          ELSE /\ breaker'.state = "open"
               /\ breaker'.outcome = "CircuitOpenError"
               /\ breaker'.stats = getStats(breaker)
               /\ breaker'.inflight = breaker.inflight]_vars


\* the successes recorded since the breaker entered half-open
SinceHalfOpen(b) == b.recordedSuccesses - b.successesAtHalfOpen

\* C31: while the breaker is half-open every execute invokes the callee; a
\* recorded failure returns it to open; a recorded success closes it exactly
\* when it is the successThreshold-th success recorded since the breaker
\* entered half-open; nothing else but reset() closes it.
C31_HalfOpenBreaker ==
  /\ [](breaker.state = "half-open"
          => /\ breaker.successes = SinceHalfOpen(breaker)
             /\ SinceHalfOpen(breaker) < breaker.successThreshold)
  /\ [][breaker.state = "half-open"
          => /\ breaker'.executes = breaker.executes + 1
                  => /\ breaker'.outcome = "invoked"
                     /\ breaker'.inflight = breaker.inflight + 1
                     /\ breaker'.state = "half-open"
             /\ breaker'.recordedFailures = breaker.recordedFailures + 1
                  => breaker'.state = "open"
             /\ breaker'.recordedSuccesses = breaker.recordedSuccesses + 1
                  => (breaker'.state = "closed"
                        <=> SinceHalfOpen(breaker') = breaker.successThreshold)
             /\ (/\ breaker'.state = "closed"
                 /\ breaker'.recordedSuccesses = breaker.recordedSuccesses)
                  => breaker' = reset(breaker)]_vars

\* C31 witness: the breaker has tripped once, gone half-open and been closed
\* by successThreshold successes, with no reset().
C31_Witness ==
  /\ breaker.state = "closed"
  /\ breaker.totalTrips = 1
  /\ breaker.recordedSuccesses = SmallSuccessThreshold
  /\ breaker.recordedFailures = SmallFailureThreshold
  /\ breaker.lastFailureTime # Null


\* the error codes extractGeminiErrorCode returns here that contain 429, 401,
\* 403, quota or unauthorized in lower case
RateOrAuthCodes == {"401_Unauthorized", "403_Forbidden"}

\* the right-hand side of C32
Degradable(fp, m) ==
  /\ Len(m.used_models) < Len(MODEL_HIERARCHY)
  /\ \/ /\ fp.type = "zod_validation"
        /\ fp.code \in {"invalid_enum_value", "too_big", "invalid_type",
                        "unrecognized_keys", "invalid_string", "invalid_literal"}
     \/ /\ fp.type = "gemini_api"
        /\ fp.code \notin RateOrAuthCodes

\* C32: what shouldDegrade returned for the fingerprint handleError classified
\* is true exactly when fewer models are used than the hierarchy holds and the
\* fingerprint is a degradable validation error or a provider error that is
\* not a rate-limit or authentication error; and when it is true,
\* getNextModel finds an unused model for that manifest.
C32_ShouldDegrade ==
  degradation.pc \in {"attemptDegradedRetry", "failed"}
    => /\ degradation.decided <=> Degradable(degradation.fp, degradation.m)
       /\ degradation.decided => getNextModel(degradation.m) # 0


\* C33: every report getReport has returned shows, in every field and in
\* every entry of tokens_by_model, the values it showed when it was returned.
C33_SnapshotImmutable ==
  \A i \in 1..Len(tracker.reports) :
    Deref(tracker.reports[i].view, tracker.heap) = tracker.reports[i].taken


\* C34: the persisted index is loaded at most once and _doInit is started at
\* most once; init has returned to a caller only after the load had finished;
\* and once the manager is initialized no step changes the index or the flag.
C34_InitOneShot ==
  /\ [](/\ hashInit.started <= 1
        /\ hashInit.loads <= 1
        /\ Len(hashInit.sizeIndex) <= Len(PersistedHashes)
        /\ \A c \in InitCallers :
             hashInit.callers[c].pc = "returned" => hashInit.callers[c].finished)
  /\ [][hashInit.initialized
          => /\ hashInit'.initialized
             /\ hashInit'.processedFiles = hashInit.processedFiles
             /\ hashInit'.sizeIndex = hashInit.sizeIndex
             /\ hashInit'.loads = hashInit.loads
             /\ hashInit'.started = hashInit.started]_vars

\* C34 witness: three callers overlapped, one started the load, one waited
\* for its promise, one came after completion, and the file was loaded.
C34_Witness ==
  /\ hashInit.loads = 1
  /\ \A c \in InitCallers : hashInit.callers[c].pc = "returned"
  /\ \E c \in InitCallers :
       hashInit.callers[c].promise # Null /\ hashInit.callers[c].kind = "init"
  /\ \E c \in InitCallers :
       hashInit.callers[c].promise = Null
         /\ hashInit.callers[c].kind = "isAlreadyProcessed"
  /\ hashInit.initPromise = Null


\* C35: withRetry calls fn at most maxRetries times; when it has returned,
\* the call that resolved was the last one and every earlier one had failed;
\* when it has thrown, maxRetries attempts have failed and the error is the
\* last attempt's; the n-th wait lies in [base*2^(n-1)/2, base*2^(n-1)) and
\* there is one wait between two attempts and none after the last; after
\* returning or throwing it calls fn no more.
C35_RetryLoop ==
  /\ [](/\ retry.invocations <= retry.maxRetries
        /\ retry.pc = "returned" => retry.invocations = Len(retry.errors) + 1
        /\ retry.pc = "thrown"
             => /\ Len(retry.errors) = retry.maxRetries
                /\ retry.invocations = retry.maxRetries
                /\ retry.maxRetries >= 1
                     => retry.thrown = retry.errors[Len(retry.errors)]
        /\ \A n \in 1..Len(retry.delays) :
             /\ retry.baseDelayMs * 2 ^ (n - 1) <= 2 * retry.delays[n]
             /\ retry.delays[n] < retry.baseDelayMs * 2 ^ (n - 1)
        /\ Len(retry.delays) =
             IF retry.pc = "thrown" /\ retry.maxRetries >= 1
               THEN Len(retry.errors) - 1
               ELSE Len(retry.errors))
  /\ [][retry.pc \in {"returned", "thrown"}
          => retry'.invocations = retry.invocations]_vars

\* C35 witness: every attempt of a call with the largest maxRetries failed,
\* the waits being the shortest and the longest of their ranges.
C35_Witness ==
  /\ retry.pc = "thrown"
  /\ retry.maxRetries = MaxRetriesOption
  /\ retry.invocations = MaxRetriesOption
  /\ retry.delays[1] = BaseDelayMs \div 2
  /\ retry.delays[2] = 2 * BaseDelayMs - 1

\* C40: when withRetry has returned or thrown, it has called fn at least once,
\* whatever maxRetries is.
C40_AtLeastOneAttempt ==
  retry.pc \in {"returned", "thrown"} => retry.invocations >= 1


\* C36: the token count of the bucket is never negative, and what
\* getAvailableTokens returns lies between 0 and maxTokens.
C36_TokensInRange ==
  /\ bucket.tokens >= 0
  /\ bucket.available \in 0..bucket.maxTokens


\* C37: every manifest createProject or updateManifest has written passes
\* ProjectManifestSchema, whatever the content of the accepted file, and no
\* load of the project's manifest fails.
C37_ManifestLoadable ==
  /\ ingest.written > 0 => ProjectManifestSchema(ingest.manifest)
  /\ ingest.pc # "unloadable"


\* C38: on a queue whose admitted callers call dequeue in the end and that
\* receives finitely many requests, every enqueue call completes: a waiter
\* leaves the queue only by being admitted by dequeue or by being rejected to
\* make room, never by both (each step takes out of the queue exactly the
\* waiters it admits plus the waiters it rejects, and an admitted waiter is
\* not in the queue any more), and no waiter stays in the queue forever.
AdmittedIds(q) == Waiting(q.admitted)
C38_QueueLiveness ==
  /\ [](Waiting(pq.queue) \cap AdmittedIds(pq) = {})
  /\ [][LET left == Waiting(pq.queue) \ Waiting(pq'.queue)
         IN /\ Cardinality(left) = (Len(pq'.admitted) - Len(pq.admitted))
                                      + (pq'.dropped - pq.dropped)
            /\ AdmittedIds(pq') \ AdmittedIds(pq) \subseteq left
            /\ pq'.dropped >= pq.dropped]_vars
  /\ \A i \in 1..MaxCalls : (i \in Waiting(pq.queue)) ~> (i \notin Waiting(pq.queue))
C38_Witness ==
  /\ pq.arrivals = MaxCalls
  /\ pq.queue = << >>
  /\ Len(pq.admitted) > 0
  /\ pq.dropped > 0


\* C39: processing of a project terminates; in particular the pipeline
\* re-entries of the project caused by degraded retries and by stale
\* recoveries together are no more than the number of models plus
\* MAX_STALE_RECOVERY_COUNT. Checked on the re-entries that have not returned
\* yet: a heartbeat tick's call chain is one processProject frame deeper for
\* each recovery callback that it is in.
RECURSIVE FramesOf(_)
FramesOf(ts) ==
  IF ts = {} THEN 0
  ELSE LET t == CHOOSE x \in ts : TRUE
       IN tasks[t].nest + FramesOf(ts \ {t})
OpenReentries == FramesOf(Ticks)
C39_ReentriesBounded ==
  OpenReentries <= Len(MODEL_HIERARCHY) + MAX_STALE_RECOVERY_COUNT

====
